---- MODULE Spec2Model ----
(***************************************************************************)
(* A model of the statsrelay forwarding pipeline.                          *)
(*                                                                         *)
(* Part I  (specification Spec): one duplication target, StatsdBackend of  *)
(*   src/src/backends.rs: its ring of client handles behind a read/write   *)
(*   lock, provide_statsd_pdu and reload_backends, and the lifetime of the *)
(*   client handles (StatsdClient of src/src/statsd_client.rs).            *)
(* Part II (specification SenderSpec): one sender task of                  *)
(*   src/src/statsd_client.rs in detail: the receive queue, client_task,   *)
(*   ticker, client_sender (the write task), form_connection and the       *)
(*   bytes written to the upstream.                                        *)
(* Part III (specification CardSpec): the cardinality processor of         *)
(*   src/src/processors/cardinality.rs: MultiCuckoo, provide_statsd, tick. *)
(* Part IV (specification FrameSpec): the framer process_buffer_newlines   *)
(*   and the read loop of client_handler, src/src/statsd_server.rs.        *)
(* Part V (specification FanSpec): the fan-out of one PDU over all         *)
(*   duplication targets, BackendsInner::provide_statsd_pdu.               *)
(***************************************************************************)
EXTENDS Integers, Sequences, FiniteSets, TLC

(***************************************************************************)
(* Bounds of the model.                                                    *)
(***************************************************************************)
\* endpoints are the strings "1" .. "NEndpoints"
NEndpoints == 2
\* longest shard map given to StatsdBackend::new or reload_backends
MaxRing == 2
\* sender tasks one behaviour may start (StatsdClient::new calls)
MaxTasks == 3
\* capacity of a receive queue (100000 in the source, scaled)
QueueCap == 1
\* distinct metric names offered to provide_statsd_pdu
NNames == 2
\* concurrent callers of provide_statsd_pdu
NProviders == 1
\* cap on the warning counter (an AtomicU64 in the source)
MaxWarn == 1

Endpoints == 1..NEndpoints
TaskIds == 1..MaxTasks
Names == 1..NNames
Providers == 1..NProviders

VARIABLES
  \* ---- Part I: StatsdBackend ----
  conf,          \* StatsdDuplicateTo: [prefix, suffix, filter]
  ring,          \* Ring<StatsdClient>: a sequence of handles (task ids)
  taskEp,        \* task id -> endpoint of the StatsdClient (0: not started)
  nTasks,        \* number of StatsdClient::new calls so far
  rq,            \* task id -> receive queue (mpsc channel of the client)
  tripwire,      \* task id -> the Trigger of the client was dropped
  taskState,     \* task id -> "none" | "running" | "exited"
  warning_log,   \* StatsdBackend.warning_log
  rwReaders,     \* read guards held on StatsdBackend.ring
  rwWriter,      \* "none" | "waiting" (a write() call is parked)
  rlPc,          \* reload_backends: "idle" | "snapshot" | "build" | "swap" | "return"
  rlGuards,      \* read guards reload_backends holds itself
  shard_map,     \* the argument of the running (or last) reload_backends
  memoize,       \* reload_backends' endpoint -> handle map (0: no entry)
  new_ring,      \* reload_backends' new ring
  rlOld,         \* the ring when the running (or last) reload began
  pvPc,          \* provider -> "idle" | "locked"
  pvPdu,         \* provider -> the PDU given to provide_statsd_pdu
  pvLen,         \* provider -> ring_read.len() as read under the guard
  pvClient,      \* provider -> the handle picked (task id)
  \* ---- Part II: one sender task (StatsdClient::new and its three tasks) ----
  handles,       \* StatsdClient handles alive (strong count of the Arc)
  tripped,       \* the Tripwire fired (the Trigger was dropped)
  queue,         \* the receive queue: PDU ids accepted, not yet taken
  nextPdu,       \* id of the next PDU that is accepted
  taken,         \* number of PDUs client_task took from the queue
  ctPc,          \* client_task: "select" | "send" | "done"
  buf,           \* client_task's write-combining buffer (frozen while "send")
  ctWhy,         \* why client_task flushes: "threshold" | "tick" | "closed" | "none"
  batch,         \* bytes appended to buf since the last tick client_task handled
  tickBatch,     \* batch as it was when the last tick (or the close of the
                 \* queue) was handled
  delayed_sends, \* the counter delayed_sends
  chan,          \* the buffer channel to the write task
  tickChan,      \* ticks waiting in the ticker channel
  tkPc,          \* ticker: "sleep" | "send" | "done"
  wtPc,          \* client_sender: "connect" | "backoff" | "recv" | "write", or
                 \* returned: "done" (line 142) | "aborted" (line 158)
  wtFirst,       \* form_connection is the first one (line 136), not a reconnect
  lazy_connect,  \* client_sender holds a stream
  wbuf,          \* client_sender's buf
  wLen,          \* length of the current buffer when client_sender received it
  wCalls,        \* write_buf calls made on the current wbuf
  wShort,        \* some write_buf call on the current wbuf was partial or failed
  connections_aborted, \* the counter connections_aborted
  disp,          \* what became of the bytes taken, in order: 0 written, n > 0
                 \* trimmed at the n-th connection death
  wire           \* the bytes written to the upstream, over all connections

ringVars == <<conf, ring, taskEp, nTasks, rq, tripwire, taskState, warning_log,
              rwReaders, rwWriter, rlPc, rlGuards, shard_map, memoize, new_ring,
              rlOld, pvPc, pvPdu, pvLen, pvClient>>

senderVars == <<handles, tripped, queue, nextPdu, taken, ctPc, buf, ctWhy, batch,
                tickBatch, delayed_sends, chan, tickChan, tkPc, wtPc, wtFirst,
                lazy_connect, wbuf, wLen, wCalls, wShort, connections_aborted, disp,
                wire>>

VARIABLES
  \* ---- Part III: Cardinality (processors/cardinality.rs) ----
  filters,       \* MultiCuckoo.filters: a FIFO of [filter, valid_until], oldest first
  now,           \* the clock (SystemTime::now())
  flagged,       \* the counter flagged_metrics
  watched,       \* the identity whose admission times are recorded
  lastIns,       \* time of the last admission of watched (-1: never admitted)
  admitted,      \* identities admitted so far
  rotSince,      \* identity -> rotations since its last admission (capped)
  cardSeen,      \* identities offered to provide_statsd so far
  cardRepeat,    \* some identity was offered more than once
  cardOffers,    \* provide_statsd calls so far
  rotated,       \* some rotate call replaced the oldest sub-filter
  sinceTick,     \* clock units since the last tick or the construction,
                 \* counted up to Window + 1
  ticked,        \* tick was called at the present time
  regular,       \* tick was called at least once per window so far
  strictTicks    \* every tick came at a later time than the tick before it

cardVars == <<filters, now, flagged, watched, lastIns, admitted, rotSince, cardSeen,
              cardRepeat, cardOffers, rotated, sinceTick, ticked, regular, strictTicks>>

VARIABLES
  \* ---- Part IV: ingress framing (statsd_server.rs) ----
  hInput,        \* the bytes the peer sends on the connection, in order
  hSent,         \* how many of them client_handler has read
  hBuf,          \* client_handler's buf
  hPdus,         \* the PDUs handed to backends.provide_statsd_pdu, in order
  hPc,           \* client_handler: "read" | "closed" | "panicked"
  hSplitCr       \* some read ended between a \r and its \n

frameVars == <<hInput, hSent, hBuf, hPdus, hPc, hSplitCr>>

VARIABLES
  \* ---- Part V: fan-out to the duplication targets (backends.rs) ----
  fanConf,       \* target -> StatsdDuplicateTo: [prefix, suffix, filter]
  fanRing,       \* target -> the ring: the ordered endpoint list
  fanQ,          \* target -> endpoint -> receive queue of the endpoint's client
  fanWarn,       \* target -> warning_log
  fanLast,       \* caller -> target -> what the caller's present or last
                 \* provide did there: [out, tries (try_send calls), ep
                 \* (endpoint tried)]
  fpPc,          \* caller -> the target its provide_statsd_pdu calls next,
                 \* 0 when it is in no call
  fpPdu          \* caller -> the PDU of its call

fanVars == <<fanConf, fanRing, fanQ, fanWarn, fanLast, fpPc, fpPdu>>

VARIABLES
  \* ---- Part VI: the ingress servers (statsd_server.rs: run, UdpServer) ----
  sTripped,      \* the process-wide tripwire has fired
  sRun,          \* run: "accept" | "drop" | "join" | "returned", and "dropped"
                 \* once main has dropped the runtime
  sGate,         \* UdpServer.shutdown_gate
  sUdp,          \* the UDP thread: "check" | "recv" | "exited" | "panicked"
  sRecvAfterGate, \* recv_from calls that returned since the gate was set
  sConn,         \* connection -> "none" | "active" | "closed" | "panicked"
  sWrites,       \* connection -> write_all calls its handler made; a handler
                 \* that made one and is "active" is inside that call
  sSent,         \* connection -> bytes of the goodbye line its socket took
  sHow,          \* connection -> how its handler left: "none" | "shutdown" |
                 \* "read" | "panic"
  sAtTrip,       \* connection -> its handler was active when the tripwire
                 \* fired, or was spawned after that
  sLast,         \* the last datagram the UDP thread received
  sFwd           \* the PDUs it forwarded from that datagram

srvVars == <<sTripped, sRun, sGate, sUdp, sRecvAfterGate, sConn, sWrites, sSent,
             sHow, sAtTrip, sLast, sFwd>>

VARIABLES
  \* ---- Part VII: the queue-full warning of a target (backends.rs) ----
  wlCount,       \* StatsdBackend.warning_log of the target
  wlDrops,       \* endpoint -> failed try_send calls on its client
  wlLines        \* endpoint -> warning lines logged that name it

warnVars == <<wlCount, wlDrops, wlLines>>

VARIABLES
  \* ---- the runtime the sender tasks run on (cmd/statsrelay.rs) ----
  rtPc           \* main: "running" (awaiting run, no signal) | "stopping"
                 \* (signal received, run still awaited) | "ended" (run
                 \* returned) | "dropped" (the runtime is dropped)

lifeVars == <<rtPc>>

procVars == <<cardVars, frameVars, fanVars, srvVars, warnVars, lifeVars>>

vars == <<ringVars, senderVars, procVars>>

(***************************************************************************)
(* Helpers on sequences.                                                   *)
(***************************************************************************)
Range(s) == {s[i] : i \in DOMAIN s}

SeqsUpTo(S, n) == UNION {[1..k -> S] : k \in 0..n}

CountIn(s, x) == Cardinality({i \in DOMAIN s : s[i] = x})

(***************************************************************************)
(* crate::shard::Ring and the placement hash (shard.rs is not among the    *)
(* sources; modelled from the spec, sections 3 and 4.1).                   *)
(***************************************************************************)
\* Ring::pick_from(code): the handle at code mod N (1-based sequence)
pick_from(r, code) == r[(code % Len(r)) + 1]

\* statsrelay_compat_hash: a fixed function of the metric name only (the
\* pinned 32-bit hash is not among the sources; any fixed function serves)
statsrelay_compat_hash(name) == (name * 31 + 7) % 65536

\* StatsdPDU::with_prefix_suffix: a new PDU carrying prefix and suffix
with_prefix_suffix(pdu, prefix, suffix) ==
  [name |-> pdu.name, prefix |-> prefix, suffix |-> suffix]

\* a PDU as the framer hands it over: a name, nothing spliced
Pdu(n) == [name |-> n, prefix |-> 0, suffix |-> 0]

\* RegexSet::is_match on the name: the configured filter admits odd names
is_match(filter, name) == name % 2 = filter % 2

(***************************************************************************)
(* Client handles.  A StatsdClient holds an Arc<StatsdClientInner>; the    *)
(* inner value owns the Trigger, so the tripwire of a task fires when no   *)
(* handle of it is left in the ring, the new ring or the memoize map.      *)
(***************************************************************************)
Handles(t, r, nr, m) ==
  CountIn(r, t) + CountIn(nr, t) + Cardinality({e \in Endpoints : m[e] = t})

\* the tripwires after handles were dropped: Drop of StatsdClientInner._trig
DropHandles(trip, n, r, nr, m) ==
  [t \in TaskIds |-> trip[t] \/ (t <= n /\ Handles(t, r, nr, m) = 0)]

NoMemo == [e \in Endpoints |-> 0]

(***************************************************************************)
(* StatsdBackend::new: the ring is built with one client per distinct      *)
(* endpoint, memoized by endpoint string.                                  *)
(***************************************************************************)
RECURSIVE NewRing(_, _, _, _, _)
\* returns <<ring, memo, number of clients made>>
NewRing(map, i, r, memo, n) ==
  IF i > Len(map) THEN <<r, memo, n>>
  ELSE IF memo[map[i]] # 0
       THEN NewRing(map, i + 1, Append(r, memo[map[i]]), memo, n)
       ELSE NewRing(map, i + 1, Append(r, n + 1),
                    [memo EXCEPT ![map[i]] = n + 1], n + 1)

StatsdBackend_new(map) == NewRing(map, 1, <<>>, NoMemo, 0)

Confs == { [prefix |-> 0, suffix |-> 0, filter |-> 0],
           [prefix |-> 1, suffix |-> 0, filter |-> 1] }

InitRing ==
  /\ conf \in Confs
  /\ \E map \in SeqsUpTo(Endpoints, MaxRing) :
       LET b == StatsdBackend_new(map) IN
         /\ ring = b[1]
         /\ nTasks = b[3]
         /\ taskEp = [t \in TaskIds |->
                        IF \E e \in Endpoints : b[2][e] = t
                        THEN CHOOSE e \in Endpoints : b[2][e] = t ELSE 0]
         /\ taskState = [t \in TaskIds |-> IF t <= b[3] THEN "running" ELSE "none"]
         /\ rlOld = b[1]
         /\ shard_map = map
  /\ rq = [t \in TaskIds |-> <<>>]
  /\ tripwire = [t \in TaskIds |-> FALSE]
  /\ warning_log = 0
  /\ rwReaders = 0
  /\ rwWriter = "none"
  /\ rlPc = "idle"
  /\ rlGuards = 0
  /\ memoize = NoMemo
  /\ new_ring = <<>>
  /\ pvPc = [p \in Providers |-> "idle"]
  /\ pvPdu = [p \in Providers |-> Pdu(1)]
  /\ pvLen = [p \in Providers |-> 0]
  /\ pvClient = [p \in Providers |-> 0]

(***************************************************************************)
(* StatsdBackend::provide_statsd_pdu, in two steps: the filter, the read   *)
(* guard, len and pick_from (lines 90-104); then the prefix/suffix, the    *)
(* try_send and the release of the guard at the end of the function        *)
(* (lines 105-140).                                                        *)
(***************************************************************************)
\* the code handed to pick_from for a ring of n >= 1 slots (lines 99-103)
PickCode(n, pdu) == IF n = 1 THEN 1 ELSE statsrelay_compat_hash(pdu.name)

\* mpsc::Sender::try_send succeeds iff the receiver lives and there is room
TrySendOk(t) == taskState[t] # "exited" /\ Len(rq[t]) < QueueCap

ProvideBegin(p, pdu) ==
  /\ pvPc[p] = "idle"
  /\ warning_log < MaxWarn
  /\ \/ \* the input filter does not match: return
        /\ conf.filter # 0 /\ ~is_match(conf.filter, pdu.name)
        /\ UNCHANGED <<pvPc, pvPdu, pvLen, pvClient, rwReaders>>
     \/ \* ring.read(), an empty ring: return, the guard is dropped
        /\ conf.filter = 0 \/ is_match(conf.filter, pdu.name)
        /\ rwWriter = "none"
        /\ Len(ring) = 0
        /\ UNCHANGED <<pvPc, pvPdu, pvLen, pvClient, rwReaders>>
     \/ \* ring.read(), len and pick_from under the guard
        /\ conf.filter = 0 \/ is_match(conf.filter, pdu.name)
        /\ rwWriter = "none"
        /\ Len(ring) > 0
        /\ rwReaders' = rwReaders + 1
        /\ pvPdu' = [pvPdu EXCEPT ![p] = pdu]
        /\ pvLen' = [pvLen EXCEPT ![p] = Len(ring)]
        /\ pvClient' = [pvClient EXCEPT ![p] = pick_from(ring, PickCode(Len(ring), pdu))]
        /\ pvPc' = [pvPc EXCEPT ![p] = "locked"]
  /\ UNCHANGED <<senderVars, procVars>>
  /\ UNCHANGED <<conf, ring, taskEp, nTasks, rq, tripwire, taskState, warning_log,
                 rwWriter, rlPc, rlGuards, shard_map, memoize, new_ring, rlOld>>

\* lines 107-124: the PDU that is queued
PduClone(pdu) ==
  IF conf.prefix # 0 \/ conf.suffix # 0
  THEN with_prefix_suffix(pdu, conf.prefix, conf.suffix)
  ELSE pdu

\* a variant that drops on a full queue without counting the drop
ProvideSend_silent(p) ==
  /\ pvPc[p] = "locked"
  /\ LET t == pvClient[p] IN
       IF TrySendOk(t)
       THEN rq' = [rq EXCEPT ![t] = Append(rq[t], PduClone(pvPdu[p]))]
       ELSE UNCHANGED rq
  /\ UNCHANGED warning_log
  /\ rwReaders' = rwReaders - 1
  /\ pvPc' = [pvPc EXCEPT ![p] = "idle"]
  /\ pvPdu' = [pvPdu EXCEPT ![p] = Pdu(1)]
  /\ pvLen' = [pvLen EXCEPT ![p] = 0]
  /\ pvClient' = [pvClient EXCEPT ![p] = 0]
  /\ UNCHANGED <<senderVars, procVars>>
  /\ UNCHANGED <<conf, ring, taskEp, nTasks, tripwire, taskState, rwWriter, rlPc,
                 rlGuards, shard_map, memoize, new_ring, rlOld>>

ProvideSend(p) ==
  /\ pvPc[p] = "locked"
  /\ LET t == pvClient[p] IN
       IF TrySendOk(t)
       THEN /\ rq' = [rq EXCEPT ![t] = Append(rq[t], PduClone(pvPdu[p]))]
            /\ UNCHANGED warning_log
       ELSE /\ warning_log' = warning_log + 1
            /\ UNCHANGED rq
  /\ rwReaders' = rwReaders - 1
  /\ pvPc' = [pvPc EXCEPT ![p] = "idle"]
  /\ pvPdu' = [pvPdu EXCEPT ![p] = Pdu(1)]
  /\ pvLen' = [pvLen EXCEPT ![p] = 0]
  /\ pvClient' = [pvClient EXCEPT ![p] = 0]
  /\ UNCHANGED <<senderVars, procVars>>
  /\ UNCHANGED <<conf, ring, taskEp, nTasks, tripwire, taskState, rwWriter, rlPc,
                 rlGuards, shard_map, memoize, new_ring, rlOld>>

(***************************************************************************)
(* The sender task behind a handle, as the backend sees it: it takes PDUs  *)
(* from the receive queue, and it exits only after its tripwire fired      *)
(* (Part II has the task in detail).                                       *)
(***************************************************************************)
SenderTaskRecv(t) ==
  /\ taskState[t] = "running"
  /\ rq[t] # <<>>
  /\ rq' = [rq EXCEPT ![t] = Tail(rq[t])]
  /\ UNCHANGED <<senderVars, procVars>>
  /\ UNCHANGED <<conf, ring, taskEp, nTasks, tripwire, taskState, warning_log,
                 rwReaders, rwWriter, rlPc, rlGuards, shard_map, memoize, new_ring,
                 rlOld, pvPc, pvPdu, pvLen, pvClient>>

SenderTaskExit(t) ==
  /\ taskState[t] = "running"
  /\ tripwire[t]
  /\ taskState' = [taskState EXCEPT ![t] = "exited"]
  /\ rq' = [rq EXCEPT ![t] = <<>>]
  /\ UNCHANGED <<senderVars, procVars>>
  /\ UNCHANGED <<conf, ring, taskEp, nTasks, tripwire, warning_log,
                 rwReaders, rwWriter, rlPc, rlGuards, shard_map, memoize, new_ring,
                 rlOld, pvPc, pvPdu, pvLen, pvClient>>

(***************************************************************************)
(* StatsdBackend::reload_backends (lines 63-87).                           *)
(***************************************************************************)
\* line 72: let ring_read = self.ring.read()
ReloadBegin(map) ==
  /\ rlPc = "idle"
  /\ nTasks + Len(map) <= MaxTasks
  /\ rwWriter = "none"
  /\ rwReaders' = rwReaders + 1
  /\ rlGuards' = 1
  /\ shard_map' = map
  /\ rlOld' = ring
  /\ memoize' = NoMemo
  /\ new_ring' = <<>>
  /\ rlPc' = "snapshot"
  /\ UNCHANGED <<senderVars, procVars>>
  /\ UNCHANGED <<conf, ring, taskEp, nTasks, rq, tripwire, taskState, warning_log,
                 rwWriter, pvPc, pvPdu, pvLen, pvClient>>

\* lines 73-76: memoize.insert(endpoint, client.clone()) for every slot; a
\* later slot of the same endpoint replaces the entry of an earlier one
RECURSIVE Snapshot(_, _, _)
Snapshot(r, i, memo) ==
  IF i >= Len(r) THEN memo
  ELSE Snapshot(r, i + 1, [memo EXCEPT ![taskEp[pick_from(r, i)]] = pick_from(r, i)])

\* lines 73-77: the second read() for len, the loop, and the end of the block
\* that drops both read guards
ReloadSnapshot ==
  /\ rlPc = "snapshot"
  /\ rwWriter = "none"
  /\ memoize' = Snapshot(ring, 0, memoize)
  /\ rwReaders' = rwReaders - rlGuards
  /\ rlGuards' = 0
  /\ rlPc' = "build"
  /\ UNCHANGED <<senderVars, procVars>>
  /\ UNCHANGED <<conf, ring, taskEp, nTasks, rq, tripwire, taskState, warning_log,
                 rwWriter, shard_map, new_ring, rlOld, pvPc, pvPdu, pvLen, pvClient>>

\* lines 78-84, one iteration: reuse the memoized client or start a new one
ReloadBuild ==
  /\ rlPc = "build"
  /\ Len(new_ring) < Len(shard_map)
  /\ LET shard == shard_map[Len(new_ring) + 1] IN
       IF memoize[shard] # 0
       THEN /\ new_ring' = Append(new_ring, memoize[shard])
            /\ UNCHANGED <<taskEp, nTasks, taskState>>
       ELSE /\ new_ring' = Append(new_ring, nTasks + 1)
            /\ nTasks' = nTasks + 1
            /\ taskEp' = [taskEp EXCEPT ![nTasks + 1] = shard]
            /\ taskState' = [taskState EXCEPT ![nTasks + 1] = "running"]
  /\ UNCHANGED <<senderVars, procVars>>
  /\ UNCHANGED <<conf, ring, rq, tripwire, warning_log, rwReaders, rwWriter, rlPc,
                 rlGuards, shard_map, memoize, rlOld, pvPc, pvPdu, pvLen, pvClient>>

\* line 85: self.ring.write() is called and parks until no reader is left
ReloadLockWrite ==
  /\ rlPc = "build"
  /\ Len(new_ring) = Len(shard_map)
  /\ rwWriter' = "waiting"
  /\ rlPc' = "swap"
  /\ UNCHANGED <<senderVars, procVars>>
  /\ UNCHANGED <<conf, ring, taskEp, nTasks, rq, tripwire, taskState, warning_log,
                 rwReaders, rlGuards, shard_map, memoize, new_ring, rlOld,
                 pvPc, pvPdu, pvLen, pvClient>>

\* a variant that swaps without waiting for the readers of the ring
ReloadSwap_unlocked ==
  /\ rlPc = "swap"
  /\ ring' = new_ring
  /\ new_ring' = <<>>
  /\ rwWriter' = "none"
  /\ tripwire' = DropHandles(tripwire, nTasks, new_ring, <<>>, memoize)
  /\ rlPc' = "return"
  /\ UNCHANGED <<senderVars, procVars>>
  /\ UNCHANGED <<conf, taskEp, nTasks, rq, taskState, warning_log, rwReaders,
                 rlGuards, shard_map, memoize, rlOld, pvPc, pvPdu, pvLen, pvClient>>

\* line 85: the write guard is granted, swap(new_ring), the guard and the old
\* ring are dropped
ReloadSwap ==
  /\ rlPc = "swap"
  /\ rwReaders = 0
  /\ ring' = new_ring
  /\ new_ring' = <<>>
  /\ rwWriter' = "none"
  /\ tripwire' = DropHandles(tripwire, nTasks, new_ring, <<>>, memoize)
  /\ rlPc' = "return"
  /\ UNCHANGED <<senderVars, procVars>>
  /\ UNCHANGED <<conf, taskEp, nTasks, rq, taskState, warning_log, rwReaders,
                 rlGuards, shard_map, memoize, rlOld, pvPc, pvPdu, pvLen, pvClient>>

\* lines 86-87: Ok(()) and the memoize map is dropped
ReloadReturn ==
  /\ rlPc = "return"
  /\ memoize' = NoMemo
  /\ tripwire' = DropHandles(tripwire, nTasks, ring, new_ring, NoMemo)
  /\ rlPc' = "idle"
  /\ UNCHANGED <<senderVars, procVars>>
  /\ UNCHANGED <<conf, ring, taskEp, nTasks, rq, taskState, warning_log, rwReaders,
                 rwWriter, rlGuards, shard_map, new_ring, rlOld, pvPc, pvPdu, pvLen,
                 pvClient>>

(***************************************************************************)
(* Part II: one sender task (src/src/statsd_client.rs).                    *)
(*                                                                         *)
(* PDU k (the k-th accepted by the receive queue) is the byte string       *)
(* <<100k+1, ..>> of PduLen(k) bytes; no PDU holds the newline byte.       *)
(***************************************************************************)
\* PDUs one behaviour accepts into the receive queue
MaxPdus == 3
\* clones of the client handle alive at once
MaxHandles == 2
\* SEND_THRESHOLD, 10 * 1024 in the source (line 32), scaled
SEND_THRESHOLD == 6
\* capacity of the buffer channel, mpsc::channel(10) in the source (line 227), scaled
BufChanCap == 1
\* capacity of the ticker channel, mpsc::channel::<bool>(1)
TickChanCap == 1
\* b'\n'
NL == 10

PduLen(k) == IF k % 2 = 1 THEN 2 ELSE 1

PduBytes(k) == [i \in 1..PduLen(k) |-> 100 * k + i]

\* a variant that appends the PDU bytes alone
Line_bare(k) == PduBytes(k)

\* lines 247-248: the PDU bytes, then one newline
Line(k) == Append(PduBytes(k), NL)

\* the bytes of the first n PDUs taken, as client_task appends them
RECURSIVE Stream(_)
Stream(n) == IF n = 0 THEN <<>> ELSE Stream(n - 1) \o Line(n)

\* memchr(b'\n', buf): the index of the first newline (from 1), 0 for None
memchr(b) ==
  IF \E i \in DOMAIN b : b[i] = NL
  THEN CHOOSE i \in DOMAIN b : b[i] = NL /\ \A j \in 1..(i - 1) : b[j] # NL
  ELSE 0

\* a variant that splits at pos: the newline stays at the head of the buffer
trim_to_next_newline_keep(b) ==
  IF memchr(b) = 0 THEN b ELSE SubSeq(b, memchr(b), Len(b))

\* lines 116-123: buf.split_to(pos + 1) drops the bytes through the newline
trim_to_next_newline(b) ==
  IF memchr(b) = 0 THEN b ELSE SubSeq(b, memchr(b) + 1, Len(b))

Rep(x, n) == [i \in 1..n |-> x]

RingIdle ==
  /\ conf = [prefix |-> 0, suffix |-> 0, filter |-> 0]
  /\ ring = <<>>
  /\ nTasks = 0
  /\ taskEp = [t \in TaskIds |-> 0]
  /\ taskState = [t \in TaskIds |-> "none"]
  /\ rlOld = <<>>
  /\ shard_map = <<>>
  /\ rq = [t \in TaskIds |-> <<>>]
  /\ tripwire = [t \in TaskIds |-> FALSE]
  /\ warning_log = 0
  /\ rwReaders = 0
  /\ rwWriter = "none"
  /\ rlPc = "idle"
  /\ rlGuards = 0
  /\ memoize = NoMemo
  /\ new_ring = <<>>
  /\ pvPc = [p \in Providers |-> "idle"]
  /\ pvPdu = [p \in Providers |-> Pdu(1)]
  /\ pvLen = [p \in Providers |-> 0]
  /\ pvClient = [p \in Providers |-> 0]

\* StatsdClient::new (lines 36-53): one handle, an empty queue, the ticker and
\* client_task spawned; client_task spawns client_sender, which starts in its
\* first form_connection
StatsdClient_new ==
  /\ handles = 1
  /\ tripped = FALSE
  /\ queue = <<>>
  /\ nextPdu = 1
  /\ taken = 0
  /\ ctPc = "select"
  /\ buf = <<>>
  /\ ctWhy = "none"
  /\ batch = <<>>
  /\ tickBatch = <<>>
  /\ delayed_sends = 0
  /\ chan = <<>>
  /\ tickChan = 0
  /\ tkPc = "sleep"
  /\ wtPc = "connect"
  /\ wtFirst = TRUE
  /\ lazy_connect = FALSE
  /\ wbuf = <<>>
  /\ wLen = 0
  /\ wCalls = 0
  /\ wShort = FALSE
  /\ connections_aborted = 0
  /\ disp = <<>>
  /\ wire = <<>>

(***************************************************************************)
(* The handles: Clone for StatsdClient (lines 64-71) and the drop of a     *)
(* handle; the Trigger lives in StatsdClientInner and is dropped with the  *)
(* last handle.                                                            *)
(***************************************************************************)
CloneHandle ==
  /\ handles > 0 /\ handles < MaxHandles
  /\ handles' = handles + 1
  /\ UNCHANGED <<ringVars, procVars>>
  /\ UNCHANGED <<tripped, queue, nextPdu, taken, ctPc, buf, ctWhy, batch, tickBatch,
                 delayed_sends, chan, tickChan, tkPc, wtPc, wtFirst, lazy_connect,
                 wbuf, wLen, wCalls, wShort, connections_aborted, disp, wire>>

\* a variant with the Trigger in every handle: any drop fires the tripwire
DropHandle_any ==
  /\ handles > 0
  /\ handles' = handles - 1
  /\ tripped' = TRUE
  /\ UNCHANGED <<ringVars, procVars>>
  /\ UNCHANGED <<queue, nextPdu, taken, ctPc, buf, ctWhy, batch, tickBatch,
                 delayed_sends, chan, tickChan, tkPc, wtPc, wtFirst, lazy_connect,
                 wbuf, wLen, wCalls, wShort, connections_aborted, disp, wire>>

DropHandle ==
  /\ handles > 0
  /\ handles' = handles - 1
  /\ tripped' = (tripped \/ handles = 1)
  /\ UNCHANGED <<ringVars, procVars>>
  /\ UNCHANGED <<queue, nextPdu, taken, ctPc, buf, ctWhy, batch, tickBatch,
                 delayed_sends, chan, tickChan, tkPc, wtPc, wtFirst, lazy_connect,
                 wbuf, wLen, wCalls, wShort, connections_aborted, disp, wire>>

\* the receive queue is closed: every Sender is gone (each handle holds one,
\* StatsdClientInner another) and recv() returns None once the queue is empty
QueueClosed == handles = 0

\* try_send on the client's sender, the Ok branch (backends.rs line 125); the
\* Err branch is part of provide_statsd_pdu in Part I
QueuePush ==
  /\ handles > 0
  /\ ctPc # "done"
  /\ nextPdu <= MaxPdus
  /\ Len(queue) < QueueCap
  /\ queue' = Append(queue, nextPdu)
  /\ nextPdu' = nextPdu + 1
  /\ UNCHANGED <<ringVars, procVars>>
  /\ UNCHANGED <<handles, tripped, taken, ctPc, buf, ctWhy, batch, tickBatch,
                 delayed_sends, chan, tickChan, tkPc, wtPc, wtFirst, lazy_connect,
                 wbuf, wLen, wCalls, wShort, connections_aborted, disp, wire>>

(***************************************************************************)
(* ticker (lines 205-213).                                                 *)
(***************************************************************************)
\* sleep(SEND_DELAY) is over
TickerWake ==
  /\ tkPc = "sleep"
  /\ tkPc' = "send"
  /\ UNCHANGED <<ringVars, procVars>>
  /\ UNCHANGED <<handles, tripped, queue, nextPdu, taken, ctPc, buf, ctWhy, batch,
                 tickBatch, delayed_sends, chan, tickChan, wtPc, wtFirst,
                 lazy_connect, wbuf, wLen, wCalls, wShort, connections_aborted, disp, wire>>

\* sender.send(true).await: an error once client_task dropped ticker_recv,
\* else it waits for room in the channel
TickerSend ==
  /\ tkPc = "send"
  /\ \/ /\ ctPc = "done"
        /\ tkPc' = "done"
        /\ UNCHANGED tickChan
     \/ /\ ctPc # "done"
        /\ tickChan < TickChanCap
        /\ tickChan' = tickChan + 1
        /\ tkPc' = "sleep"
  /\ UNCHANGED <<ringVars, procVars>>
  /\ UNCHANGED <<handles, tripped, queue, nextPdu, taken, ctPc, buf, ctWhy, batch,
                 tickBatch, delayed_sends, chan, wtPc, wtFirst,
                 lazy_connect, wbuf, wLen, wCalls, wShort, connections_aborted, disp, wire>>

(***************************************************************************)
(* client_task (lines 215-277).                                            *)
(***************************************************************************)
\* client_sender returned, which drops buf_recv
SenderReturned == wtPc \in {"done", "aborted"}

\* a variant without write-combining: every PDU is flushed at once
BelowThreshold_never(b) == FALSE

\* line 250: the flush test after a PDU was appended
BelowThreshold(b) == Len(b) < SEND_THRESHOLD

\* select: recv.recv() gives Some(pdu) (lines 242-255)
ClientRecvPdu ==
  /\ ctPc = "select"
  /\ queue # <<>>
  /\ LET b == buf \o Line(Head(queue)) IN
       /\ buf' = b
       /\ batch' = batch \o Line(Head(queue))
       /\ IF BelowThreshold(b)
          THEN UNCHANGED <<ctPc, ctWhy>>
          ELSE ctPc' = "send" /\ ctWhy' = "threshold"
  /\ queue' = Tail(queue)
  /\ taken' = taken + 1
  /\ UNCHANGED <<ringVars, procVars>>
  /\ UNCHANGED <<handles, tripped, nextPdu, tickBatch, delayed_sends, chan, tickChan,
                 tkPc, wtPc, wtFirst, lazy_connect, wbuf, wLen, wCalls, wShort,
                 connections_aborted, disp, wire>>

\* a variant that returns on a closed queue without flushing the last buffer
ClientRecvClosed_noflush ==
  /\ ctPc = "select"
  /\ queue = <<>>
  /\ QueueClosed
  /\ ctPc' = "done"
  /\ tickBatch' = batch
  /\ batch' = <<>>
  /\ UNCHANGED <<ringVars, procVars>>
  /\ UNCHANGED <<handles, tripped, queue, nextPdu, taken, buf, ctWhy,
                 delayed_sends, chan, tickChan, tkPc, wtPc, wtFirst, lazy_connect,
                 wbuf, wLen, wCalls, wShort, connections_aborted, disp, wire>>

\* select: recv.recv() gives None, the queue is closed and empty (lines 256-262)
ClientRecvClosed ==
  /\ ctPc = "select"
  /\ queue = <<>>
  /\ QueueClosed
  /\ IF buf = <<>>
     THEN ctPc' = "done" /\ UNCHANGED ctWhy
     ELSE ctPc' = "send" /\ ctWhy' = "closed"
  /\ tickBatch' = batch
  /\ batch' = <<>>
  /\ UNCHANGED <<ringVars, procVars>>
  /\ UNCHANGED <<handles, tripped, queue, nextPdu, taken, buf,
                 delayed_sends, chan, tickChan, tkPc, wtPc, wtFirst, lazy_connect,
                 wbuf, wLen, wCalls, wShort, connections_aborted, disp, wire>>

\* a variant that flushes on every tick, also an empty buffer
ClientTick_always ==
  /\ ctPc = "select"
  /\ tickChan > 0
  /\ tickChan' = tickChan - 1
  /\ tickBatch' = batch
  /\ batch' = <<>>
  /\ delayed_sends' = delayed_sends + 1
  /\ ctPc' = "send"
  /\ ctWhy' = "tick"
  /\ UNCHANGED <<ringVars, procVars>>
  /\ UNCHANGED <<handles, tripped, queue, nextPdu, taken, buf, chan, tkPc, wtPc,
                 wtFirst, lazy_connect, wbuf, wLen, wCalls, wShort, connections_aborted,
                 disp, wire>>

\* select: ticker_recv.recv() gives a tick (lines 263-269)
ClientTick ==
  /\ ctPc = "select"
  /\ tickChan > 0
  /\ tickChan' = tickChan - 1
  /\ tickBatch' = batch
  /\ batch' = <<>>
  /\ IF buf = <<>>
     THEN UNCHANGED <<ctPc, ctWhy, delayed_sends>>
     ELSE /\ delayed_sends' = delayed_sends + 1
          /\ ctPc' = "send"
          /\ ctWhy' = "tick"
  /\ UNCHANGED <<ringVars, procVars>>
  /\ UNCHANGED <<handles, tripped, queue, nextPdu, taken, buf, chan, tkPc, wtPc,
                 wtFirst, lazy_connect, wbuf, wLen, wCalls, wShort, connections_aborted,
                 disp, wire>>

\* lines 271-275: buf_sender.send(buf.freeze()).await waits for room in the
\* channel; it fails once client_sender dropped buf_recv, and client_task
\* returns; else a fresh buffer and the next round of the loop
ClientSend ==
  /\ ctPc = "send"
  /\ \/ /\ SenderReturned
        /\ ctPc' = "done"
        /\ queue' = <<>>
        /\ UNCHANGED <<chan, buf>>
     \/ /\ ~SenderReturned
        /\ Len(chan) < BufChanCap
        /\ chan' = Append(chan, buf)
        /\ buf' = <<>>
        /\ ctPc' = "select"
        /\ UNCHANGED queue
  /\ ctWhy' = "none"
  /\ UNCHANGED <<ringVars, procVars>>
  /\ UNCHANGED <<handles, tripped, nextPdu, taken, batch, tickBatch, delayed_sends,
                 tickChan, tkPc, wtPc, wtFirst, lazy_connect, wbuf, wLen, wCalls, wShort,
                 connections_aborted, disp, wire>>

(***************************************************************************)
(* form_connection (lines 75-111), called by client_sender at line 136     *)
(* (wtFirst) and at line 154 (a reconnect inside the write loop).          *)
(***************************************************************************)
\* Ok(Ok(s)): connected; form_connection returns Some(stream)
ConnectOk ==
  /\ wtPc = "connect"
  /\ lazy_connect' = TRUE
  /\ wtPc' = IF wtFirst THEN "recv" ELSE "write"
  /\ wtFirst' = FALSE
  /\ UNCHANGED <<ringVars, procVars>>
  /\ UNCHANGED <<handles, tripped, queue, nextPdu, taken, ctPc, buf, ctWhy, batch,
                 tickBatch, delayed_sends, chan, tickChan, tkPc, wbuf, wLen, wCalls, wShort,
                 connections_aborted, disp, wire>>

\* Err(timeout) or Ok(Err(e)): sleep(RECONNECT_DELAY), then the next attempt
ConnectFail ==
  /\ wtPc = "connect"
  /\ wtPc' = "backoff"
  /\ UNCHANGED <<ringVars, procVars>>
  /\ UNCHANGED <<handles, tripped, queue, nextPdu, taken, ctPc, buf, ctWhy, batch,
                 tickBatch, delayed_sends, chan, tickChan, tkPc, wtFirst,
                 lazy_connect, wbuf, wLen, wCalls, wShort, connections_aborted, disp, wire>>

\* sleep(RECONNECT_DELAY) is over
BackoffDone ==
  /\ wtPc = "backoff"
  /\ wtPc' = "connect"
  /\ UNCHANGED <<ringVars, procVars>>
  /\ UNCHANGED <<handles, tripped, queue, nextPdu, taken, ctPc, buf, ctWhy, batch,
                 tickBatch, delayed_sends, chan, tickChan, tkPc, wtFirst,
                 lazy_connect, wbuf, wLen, wCalls, wShort, connections_aborted, disp, wire>>

\* the tripwire branch of the select: form_connection returns None.  The first
\* connect goes on to the receive loop without a stream (line 136); a
\* reconnect makes client_sender return (lines 155-159), dropping its buffer
\* and the buffer channel
ConnectAbort ==
  /\ wtPc = "connect"
  /\ tripped
  /\ IF wtFirst
     THEN wtPc' = "recv" /\ UNCHANGED <<wbuf, chan>>
     ELSE wtPc' = "aborted" /\ wbuf' = <<>> /\ chan' = <<>>
  /\ wtFirst' = FALSE
  /\ UNCHANGED <<ringVars, procVars>>
  /\ UNCHANGED <<handles, tripped, queue, nextPdu, taken, ctPc, buf, ctWhy, batch,
                 tickBatch, delayed_sends, tickChan, tkPc, lazy_connect, wLen, wCalls,
                 wShort, connections_aborted, disp, wire>>

(***************************************************************************)
(* client_sender (lines 125-196).                                          *)
(***************************************************************************)
\* lines 139-145: recv.recv() gives the next buffer, or None once client_task
\* dropped buf_sender and the channel is empty
SenderRecv ==
  /\ wtPc = "recv"
  /\ \/ /\ chan # <<>>
        /\ wbuf' = Head(chan)
        /\ chan' = Tail(chan)
        /\ wLen' = Len(Head(chan))
        /\ wCalls' = 0
        /\ wShort' = FALSE
        /\ wtPc' = "write"
     \/ /\ chan = <<>>
        /\ ctPc = "done"
        /\ wtPc' = "done"
        /\ UNCHANGED <<wbuf, chan, wLen, wCalls, wShort>>
  /\ UNCHANGED <<ringVars, procVars>>
  /\ UNCHANGED <<handles, tripped, queue, nextPdu, taken, ctPc, buf, ctWhy, batch,
                 tickBatch, delayed_sends, tickChan, tkPc, wtFirst, lazy_connect,
                 connections_aborted, disp, wire>>

\* lines 147-149: the buffer is empty at the top of the write loop
SenderLoopEmpty ==
  /\ wtPc = "write"
  /\ wbuf = <<>>
  /\ wtPc' = "recv"
  /\ UNCHANGED <<ringVars, procVars>>
  /\ UNCHANGED <<handles, tripped, queue, nextPdu, taken, ctPc, buf, ctWhy, batch,
                 tickBatch, delayed_sends, chan, tickChan, tkPc, wtFirst,
                 lazy_connect, wbuf, wLen, wCalls, wShort, connections_aborted, disp, wire>>

\* lines 150-154: no stream, form_connection is called
SenderReconnect ==
  /\ wtPc = "write"
  /\ wbuf # <<>>
  /\ ~lazy_connect
  /\ wtPc' = "connect"
  /\ UNCHANGED <<ringVars, procVars>>
  /\ UNCHANGED <<handles, tripped, queue, nextPdu, taken, ctPc, buf, ctWhy, batch,
                 tickBatch, delayed_sends, chan, tickChan, tkPc, wtFirst,
                 lazy_connect, wbuf, wLen, wCalls, wShort, connections_aborted, disp, wire>>

\* a variant that writes n bytes and advances the buffer by one byte less
SenderWrite_resend(n) ==
  /\ wtPc = "write"
  /\ wbuf # <<>>
  /\ lazy_connect
  /\ n \in 1..Len(wbuf)
  /\ wbuf' = SubSeq(wbuf, n, Len(wbuf))
  /\ disp' = disp \o Rep(0, n - 1)
  /\ wire' = wire \o SubSeq(wbuf, 1, n)
  /\ wCalls' = wCalls + 1
  /\ wShort' = TRUE
  /\ wtPc' = "write"
  /\ UNCHANGED <<ringVars, procVars>>
  /\ UNCHANGED <<handles, tripped, queue, nextPdu, taken, ctPc, buf, ctWhy, batch,
                 tickBatch, delayed_sends, chan, tickChan, tkPc, wtFirst,
                 lazy_connect, wLen, connections_aborted>>

\* lines 165, 174-182: write_buf writes n >= 1 bytes and advances the buffer
SenderWrite(n) ==
  /\ wtPc = "write"
  /\ wbuf # <<>>
  /\ lazy_connect
  /\ n \in 1..Len(wbuf)
  /\ wbuf' = SubSeq(wbuf, n + 1, Len(wbuf))
  /\ disp' = disp \o Rep(0, n)
  /\ wire' = wire \o SubSeq(wbuf, 1, n)
  /\ wCalls' = wCalls + 1
  /\ wShort' = (wShort \/ n < Len(wbuf))
  /\ wtPc' = IF n = Len(wbuf) THEN "recv" ELSE "write"
  /\ UNCHANGED <<ringVars, procVars>>
  /\ UNCHANGED <<handles, tripped, queue, nextPdu, taken, ctPc, buf, ctWhy, batch,
                 tickBatch, delayed_sends, chan, tickChan, tkPc, wtFirst,
                 lazy_connect, wLen, connections_aborted>>

\* lines 165-173 and 183-192: write_buf gives Ok(0) on a non-empty buffer, or
\* Err: the stream is dropped, the buffer trimmed to the next newline
SenderWriteDead(result) ==
  /\ wtPc = "write"
  /\ wbuf # <<>>
  /\ lazy_connect
  /\ result \in {"Ok0", "Err"}
  /\ lazy_connect' = FALSE
  /\ wbuf' = trim_to_next_newline(wbuf)
  /\ disp' = disp \o Rep(connections_aborted + 1,
                          Len(wbuf) - Len(trim_to_next_newline(wbuf)))
  /\ connections_aborted' = connections_aborted + 1
  /\ wCalls' = wCalls + 1
  /\ wShort' = TRUE
  /\ UNCHANGED <<ringVars, procVars>>
  /\ UNCHANGED <<handles, tripped, queue, nextPdu, taken, ctPc, buf, ctWhy, batch,
                 tickBatch, delayed_sends, chan, tickChan, tkPc, wtPc, wtFirst,
                 wLen, wire>>

(***************************************************************************)
(* Part III: the cardinality processor (src/src/processors/cardinality.rs).*)
(*                                                                         *)
(* A sub-filter is a CuckooFilter.  CuckooFilter::add stores one           *)
(* fingerprint per call and makes no membership test, so a sub-filter is   *)
(* the bag of the identities added to it: len() counts every add,          *)
(* contains() asks for a positive count.  False positives and the failure  *)
(* of add on a full filter are left out: the model stays below the eight   *)
(* copies of one identity that the two candidate buckets of a filter hold. *)
(***************************************************************************)
\* config buckets: the number of sub-filters
Buckets == 2
\* config rotate_after_seconds: the window, in clock units
Window == 2
\* config size_limit
SizeLimit == 1
\* distinct identities offered to provide_statsd
NIds == 3
\* provide_statsd calls in one behaviour
MaxOffers == 3
\* the clock stops here
MaxTime == 16

Ids == 1..NIds

\* CuckooFilter::with_capacity: nothing added yet
EmptyFilter == [i \in Ids |-> 0]

\* lines 28-33
TimeBoundedCuckoo_new(valid_until) ==
  [filter |-> EmptyFilter, valid_until |-> valid_until]

\* lines 49-60: sub-filter number bucket (from 1) is valid until
\* time + window * bucket
MultiCuckoo_new(buckets, window, time) ==
  [bucket \in 1..buckets |-> TimeBoundedCuckoo_new(time + window * bucket)]

\* CuckooFilter::len: the number of fingerprints stored
RECURSIVE FilterLen(_, _)
FilterLen(f, n) == IF n = 0 THEN 0 ELSE f[n] + FilterLen(f, n - 1)

\* lines 62-64: the length of the oldest sub-filter
MultiCuckoo_len(fs) == FilterLen(fs[1].filter, NIds)

\* lines 66-68: membership is asked of the oldest sub-filter
MultiCuckoo_contains(fs, data) == fs[1].filter[data] > 0

\* a variant that adds to the oldest sub-filter only
MultiCuckoo_add_oldest(fs, data) ==
  [k \in DOMAIN fs |->
     IF k = 1 THEN [fs[k] EXCEPT !.filter[data] = @ + 1] ELSE fs[k]]

\* lines 70-77: the identity is added to every sub-filter
MultiCuckoo_add(fs, data) ==
  [k \in DOMAIN fs |-> [fs[k] EXCEPT !.filter[data] = @ + 1]]

\* a variant for which no sub-filter ever expires
Expired_never(fs, with_time) == FALSE

\* line 80: valid_until.duration_since(with_time) is an error iff with_time
\* is later than valid_until
Expired(fs, with_time) == with_time > fs[1].valid_until

\* a variant whose fresh sub-filter is valid until with_time only
FreshValidUntil_short(with_time) == with_time

\* line 84: with_time + window * (buckets + 1)
FreshValidUntil(with_time) == with_time + Window * (Buckets + 1)

\* a variant that puts the fresh sub-filter at the front of the FIFO
MultiCuckoo_rotate_front(fs, with_time) ==
  IF Expired(fs, with_time)
  THEN <<TimeBoundedCuckoo_new(FreshValidUntil(with_time))>> \o Tail(fs)
  ELSE fs

\* lines 79-87
MultiCuckoo_rotate(fs, with_time) ==
  IF Expired(fs, with_time)
  THEN Append(Tail(fs), TimeBoundedCuckoo_new(FreshValidUntil(with_time)))
  ELSE fs

\* a variant that lets one identity more pass
OverLimit_late(fs) == MultiCuckoo_len(fs) > SizeLimit + 1

\* line 118: filter.len() > self.limit
OverLimit(fs) == MultiCuckoo_len(fs) > SizeLimit

\* a variant that rejects one identity earlier
Rejects_early(fs, sample) ==
  ~MultiCuckoo_contains(fs, sample) /\ MultiCuckoo_len(fs) >= SizeLimit

\* lines 117-118: the sample is rejected
Rejects(fs, sample) == ~MultiCuckoo_contains(fs, sample) /\ OverLimit(fs)

\* Cardinality::new (lines 98-107) at time 0
CardInit ==
  /\ filters = MultiCuckoo_new(Buckets, Window, 0)
  /\ now = 0
  /\ flagged = 0
  /\ watched \in Ids
  /\ lastIns = -1
  /\ admitted = {}
  /\ rotSince = [i \in Ids |-> 0]
  /\ cardSeen = {}
  /\ cardRepeat = FALSE
  /\ cardOffers = 0
  /\ rotated = FALSE
  /\ sinceTick = 0
  /\ ticked = FALSE
  /\ regular = TRUE
  /\ strictTicks = TRUE

\* the processor as the other parts see it: built, nothing offered yet
CardIdle == CardInit /\ watched = 1

\* a variant that records a rejected sample in the newest sub-filter
provide_statsd_marks(sample) ==
  /\ cardOffers < MaxOffers
  /\ cardOffers' = cardOffers + 1
  /\ cardSeen' = cardSeen \cup {sample}
  /\ cardRepeat' = (cardRepeat \/ sample \in cardSeen)
  /\ IF Rejects(filters, sample)
     THEN /\ flagged' = flagged + 1
          /\ filters' = [filters EXCEPT ![Buckets].filter[sample] = @ + 1]
          /\ UNCHANGED <<lastIns, admitted, rotSince>>
     ELSE /\ filters' = MultiCuckoo_add(filters, sample)
          /\ lastIns' = IF sample = watched THEN now ELSE lastIns
          /\ admitted' = admitted \cup {sample}
          /\ rotSince' = [rotSince EXCEPT ![sample] = 0]
          /\ UNCHANGED flagged
  /\ UNCHANGED <<now, watched, rotated, sinceTick, ticked, regular, strictTicks>>
  /\ UNCHANGED <<ringVars, senderVars, frameVars, fanVars, srvVars, warnVars,
               lifeVars>>

\* Cardinality::provide_statsd (lines 115-128)
provide_statsd(sample) ==
  /\ cardOffers < MaxOffers
  /\ cardOffers' = cardOffers + 1
  /\ cardSeen' = cardSeen \cup {sample}
  /\ cardRepeat' = (cardRepeat \/ sample \in cardSeen)
  /\ IF Rejects(filters, sample)
     THEN /\ flagged' = flagged + 1
          /\ UNCHANGED <<filters, lastIns, admitted, rotSince>>
     ELSE /\ filters' = MultiCuckoo_add(filters, sample)
          /\ lastIns' = IF sample = watched THEN now ELSE lastIns
          /\ admitted' = admitted \cup {sample}
          /\ rotSince' = [rotSince EXCEPT ![sample] = 0]
          /\ UNCHANGED flagged
  /\ UNCHANGED <<now, watched, rotated, sinceTick, ticked, regular, strictTicks>>
  /\ UNCHANGED <<ringVars, senderVars, frameVars, fanVars, srvVars, warnVars,
               lifeVars>>

\* a variant that also retires a sub-filter whose valid_until is the present
\* time
tick_eager ==
  /\ filters' = IF filters[1].valid_until <= now
                THEN Append(Tail(filters), TimeBoundedCuckoo_new(FreshValidUntil(now)))
                ELSE filters
  /\ rotated' = (rotated \/ filters[1].valid_until <= now)
  /\ rotSince' = IF filters[1].valid_until <= now
                 THEN [i \in Ids |-> IF rotSince[i] < Buckets
                                     THEN rotSince[i] + 1 ELSE rotSince[i]]
                 ELSE rotSince
  /\ strictTicks' = (strictTicks /\ ~ticked)
  /\ sinceTick' = 0
  /\ ticked' = TRUE
  /\ UNCHANGED <<now, flagged, watched, lastIns, admitted, cardSeen, cardRepeat,
                 cardOffers, regular>>
  /\ UNCHANGED <<ringVars, senderVars, frameVars, fanVars, srvVars, warnVars,
               lifeVars>>

\* Cardinality::tick (lines 130-132) and Cardinality::rotate (109-111):
\* rotate(SystemTime::now())
tick ==
  /\ filters' = MultiCuckoo_rotate(filters, now)
  /\ rotated' = (rotated \/ Expired(filters, now))
  /\ rotSince' = IF Expired(filters, now)
                 THEN [i \in Ids |-> IF rotSince[i] < Buckets
                                     THEN rotSince[i] + 1 ELSE rotSince[i]]
                 ELSE rotSince
  /\ strictTicks' = (strictTicks /\ ~ticked)
  /\ sinceTick' = 0
  /\ ticked' = TRUE
  /\ UNCHANGED <<now, flagged, watched, lastIns, admitted, cardSeen, cardRepeat,
                 cardOffers, regular>>
  /\ UNCHANGED <<ringVars, senderVars, frameVars, fanVars, srvVars, warnVars,
               lifeVars>>

\* the clock advances by one unit; a tick is overdue once more than a window
\* has passed since the last one (or since the construction)
ClockAdvance ==
  /\ now < MaxTime
  /\ now' = now + 1
  /\ sinceTick' = IF sinceTick <= Window THEN sinceTick + 1 ELSE sinceTick
  /\ ticked' = FALSE
  /\ regular' = (regular /\ sinceTick + 1 <= Window)
  /\ UNCHANGED <<filters, flagged, watched, lastIns, admitted, rotSince, cardSeen,
                 cardRepeat, cardOffers, rotated, strictTicks>>
  /\ UNCHANGED <<ringVars, senderVars, frameVars, fanVars, srvVars, warnVars,
               lifeVars>>

CardNext ==
  \/ \E sample \in Ids : provide_statsd(sample)
  \/ tick
  \/ ClockAdvance

(***************************************************************************)
(* Part IV: ingress framing (statsd_server.rs).  client_handler appends    *)
(* what it reads from the socket to buf and calls process_buffer_newlines, *)
(* which splits newline-terminated lines off the front of buf and hands    *)
(* each to StatsdPDU::new.  Bytes are their ASCII codes.  The peer's whole *)
(* byte stream is hInput; the reads cut it at arbitrary points.            *)
(***************************************************************************)
MaxLines == 2

\* b'\r' (line 96)
CR == 13

\* the bytes ':' and '|' of the statsd wire format (spec, section 6)
COLON == 58
PIPE == 124

\* the lines a peer sends: "a:1|c", "b:2|c", and an empty line
PduA == <<97, COLON, 49, PIPE, 99>>
PduB == <<98, COLON, 50, PIPE, 99>>
LineBodies == {PduA, PduB, <<>>}

\* the line terminators the framer recognises
Terms == {<<NL>>, <<CR, NL>>}

\* what may follow the last newline: nothing, or the unterminated "c:3"
Tails == {<<>>, <<99, COLON, 51>>}

\* the byte streams of at most n terminated lines and a tail
RECURSIVE InputsOf(_)
InputsOf(n) ==
  IF n = 0 THEN Tails
  ELSE InputsOf(n - 1) \cup
       {l \o t \o rest : l \in LineBodies, t \in Terms, rest \in InputsOf(n - 1)}

\* the statsd tokenizer's verdict on a line (statsd.rs is not among the
\* sources; the spec gives the form name:value|type): a non-empty name, a
\* ':', a non-empty value, a '|' and a non-empty type
WellFormedPdu(line) ==
  \E i, j \in DOMAIN line :
    /\ 1 < i /\ line[i] = COLON
    /\ i + 1 < j /\ line[j] = PIPE
    /\ j < Len(line)

\* StatsdPDU::new: Some(pdu) as <<pdu>>, None (parse failure) as <<>>
StatsdPDU_new(line) == IF WellFormedPdu(line) THEN <<line>> ELSE <<>>

\* the loop of process_buffer_newlines (lines 91-104) on buf b with ret
\* collected so far.  incoming is the line with its newline; the index
\* incoming.len() - 2 does not exist when incoming is the newline alone, and
\* the function panics (subtraction overflow, or index out of bounds when
\* overflow checks are off).
RECURSIVE frame_loop(_, _)
frame_loop(b, ret) ==
  LET newline == memchr(b) IN
    IF newline = 0
    THEN [ret |-> ret, buf |-> b, panic |-> FALSE]
    ELSE LET incoming == SubSeq(b, 1, newline)
             rest == SubSeq(b, newline + 1, Len(b))
         IN IF Len(incoming) < 2
            THEN [ret |-> ret, buf |-> rest, panic |-> TRUE]
            ELSE LET line == IF incoming[Len(incoming) - 1] = CR
                             THEN SubSeq(incoming, 1, Len(incoming) - 2)
                             ELSE SubSeq(incoming, 1, Len(incoming) - 1)
                 IN frame_loop(rest, ret \o StatsdPDU_new(line))

\* process_buffer_newlines (lines 89-106)
process_buffer_newlines(b) == frame_loop(b, <<>>)

\* the connection before its first read (lines 114-117), the peer's stream
\* being any of the inputs
FrameInit ==
  /\ hInput \in InputsOf(MaxLines)
  /\ hSent = 0 /\ hBuf = <<>> /\ hPdus = <<>>
  /\ hPc = "read" /\ hSplitCr = FALSE

\* no connection
FrameIdle == FrameInit /\ hInput = <<>>

\* a variant that empties buf after framing
HandlerRead_clears(n) ==
  /\ hPc = "read"
  /\ n \in 1..(Len(hInput) - hSent)
  /\ LET r == process_buffer_newlines(hBuf \o SubSeq(hInput, hSent + 1, hSent + n)) IN
       IF r.panic
       THEN hPc' = "panicked" /\ hBuf' = r.buf /\ UNCHANGED hPdus
       ELSE hPc' = "read" /\ hBuf' = <<>> /\ hPdus' = hPdus \o r.ret
  /\ hSent' = hSent + n
  /\ hSplitCr' = (hSplitCr \/ (/\ hSent + n < Len(hInput)
                               /\ hInput[hSent + n] = CR
                               /\ hInput[hSent + n + 1] = NL))
  /\ UNCHANGED hInput
  /\ UNCHANGED <<ringVars, senderVars, cardVars, fanVars, srvVars, warnVars,
               lifeVars>>

\* client_handler, a read of n > 0 bytes (lines 124, 161-169): the bytes are
\* appended to buf, buf is framed, the PDUs go to the backends
HandlerRead(n) ==
  /\ hPc = "read"
  /\ n \in 1..(Len(hInput) - hSent)
  /\ LET r == process_buffer_newlines(hBuf \o SubSeq(hInput, hSent + 1, hSent + n)) IN
       IF r.panic
       THEN hPc' = "panicked" /\ hBuf' = r.buf /\ UNCHANGED hPdus
       ELSE hPc' = "read" /\ hBuf' = r.buf /\ hPdus' = hPdus \o r.ret
  /\ hSent' = hSent + n
  /\ hSplitCr' = (hSplitCr \/ (/\ hSent + n < Len(hInput)
                               /\ hInput[hSent + n] = CR
                               /\ hInput[hSent + n + 1] = NL))
  /\ UNCHANGED hInput
  /\ UNCHANGED <<ringVars, senderVars, cardVars, fanVars, srvVars, warnVars,
               lifeVars>>

\* client_handler, a read of 0 bytes (lines 135-160): with an empty buf the
\* handler leaves; otherwise buf is framed and what remains is a last PDU
HandlerEof ==
  /\ hPc = "read"
  /\ hSent = Len(hInput)
  /\ IF hBuf = <<>>
     THEN hPc' = "closed" /\ UNCHANGED <<hBuf, hPdus>>
     ELSE LET r == process_buffer_newlines(hBuf) IN
            IF r.panic
            THEN hPc' = "panicked" /\ hBuf' = r.buf /\ UNCHANGED hPdus
            ELSE /\ hPc' = "closed"
                 /\ hBuf' = r.buf
                 /\ hPdus' = hPdus \o r.ret \o StatsdPDU_new(r.buf)
  /\ UNCHANGED <<hInput, hSent, hSplitCr>>
  /\ UNCHANGED <<ringVars, senderVars, cardVars, fanVars, srvVars, warnVars,
               lifeVars>>

\* client_handler, a read timeout, a socket error or the tripwire (lines
\* 170-186): the handler leaves, buf is dropped as it is
HandlerAbort ==
  /\ hPc = "read"
  /\ hPc' = "closed"
  /\ UNCHANGED <<hInput, hSent, hBuf, hPdus, hSplitCr>>
  /\ UNCHANGED <<ringVars, senderVars, cardVars, fanVars, srvVars, warnVars,
               lifeVars>>

FrameNext ==
  \/ \E n \in 1..(Len(hInput) - hSent) : HandlerRead(n)
  \/ HandlerEof
  \/ HandlerAbort

(***************************************************************************)
(* Part V: fan-out to the duplication targets (backends.rs, lines 143-188).*)
(* BackendsInner holds a vector of StatsdBackend; provide_statsd_pdu calls *)
(* StatsdBackend::provide_statsd_pdu of each in turn with the same PDU.    *)
(* A target is taken here as StatsdBackend::new left it: a configuration,  *)
(* a ring over its endpoint list with one client per endpoint, and the     *)
(* receive queue of each client.  The UDP thread and every TCP handler    *)
(* hold a clone of Backends and call provide_statsd_pdu at the same time:  *)
(* the read guard of Backends.inner is shared, and each target's ring      *)
(* guard is released before the next target is called, so that a call on   *)
(* one target is one step and the calls of several callers interleave.     *)
(***************************************************************************)
NTargets == 2

Targets == 1..NTargets

\* the threads and tasks that call provide_statsd_pdu at the same time
NCallers == 2

Callers == 1..NCallers

\* nothing done at a target
NoOutcome == [out |-> "none", tries |-> 0, ep |-> 0]

\* the rings StatsdBackend::new builds: any endpoint list up to MaxRing
FanRings == SeqsUpTo(Endpoints, MaxRing)

\* lines 107-124 for the configuration c: the PDU that is queued
FanClone(c, pdu) ==
  IF c.prefix # 0 \/ c.suffix # 0
  THEN with_prefix_suffix(pdu, c.prefix, c.suffix)
  ELSE pdu

\* StatsdBackend::provide_statsd_pdu (lines 89-140) on a target with
\* configuration c, ring rg and queues q (endpoint -> queue): the queues
\* after the call, what became of the PDU, the try_send calls made and the
\* endpoint tried
StatsdBackend_provide(c, rg, q, pdu) ==
  IF c.filter # 0 /\ ~is_match(c.filter, pdu.name)
  THEN [q |-> q, out |-> "filtered", tries |-> 0, ep |-> 0]
  ELSE IF Len(rg) = 0
  THEN [q |-> q, out |-> "empty", tries |-> 0, ep |-> 0]
  ELSE LET e == pick_from(rg, PickCode(Len(rg), pdu)) IN
         IF Len(q[e]) < QueueCap
         THEN [q |-> [q EXCEPT ![e] = Append(@, FanClone(c, pdu))],
               out |-> "queued", tries |-> 1, ep |-> e]
         ELSE [q |-> q, out |-> "dropped", tries |-> 1, ep |-> e]

\* Backends::new and add_statsd_backend for each target (lines 145-153,
\* 174-182): every queue empty, nothing counted, nobody calling
FanInit ==
  /\ fanConf \in [Targets -> Confs]
  /\ fanRing \in [Targets -> FanRings]
  /\ fanQ = [t \in Targets |-> [e \in Endpoints |-> <<>>]]
  /\ fanWarn = [t \in Targets |-> 0]
  /\ fanLast = [c \in Callers |-> [t \in Targets |-> NoOutcome]]
  /\ fpPc = [c \in Callers |-> 0]
  /\ fpPdu = [c \in Callers |-> Pdu(1)]

\* the fan-out at rest: plain targets without endpoints
FanIdle ==
  /\ FanInit
  /\ fanConf = [t \in Targets |-> [prefix |-> 0, suffix |-> 0, filter |-> 0]]
  /\ fanRing = [t \in Targets |-> <<>>]

\* Backends::provide_statsd_pdu (lines 185-187): the caller c takes the
\* shared read guard of inner and starts on the vector of targets
FanProvide(c, pdu) ==
  /\ fpPc[c] = 0
  /\ fpPc' = [fpPc EXCEPT ![c] = 1]
  /\ fpPdu' = [fpPdu EXCEPT ![c] = pdu]
  /\ fanLast' = [fanLast EXCEPT ![c] = [t \in Targets |-> NoOutcome]]
  /\ UNCHANGED <<fanConf, fanRing, fanQ, fanWarn>>
  /\ UNCHANGED <<ringVars, senderVars, cardVars, frameVars, srvVars, warnVars,
               lifeVars>>

\* a variant that stops at the first target that does not queue the PDU
FanProvideTarget_stops(c) ==
  /\ fpPc[c] \in Targets
  /\ LET t == fpPc[c]
         res == StatsdBackend_provide(fanConf[t], fanRing[t], fanQ[t], fpPdu[c])
     IN /\ res.out = "dropped" => fanWarn[t] < MaxWarn
        /\ fanQ' = [fanQ EXCEPT ![t] = res.q]
        /\ fanWarn' = IF res.out = "dropped"
                      THEN [fanWarn EXCEPT ![t] = @ + 1]
                      ELSE fanWarn
        /\ fanLast' = [fanLast EXCEPT ![c][t] =
                         [out |-> res.out, tries |-> res.tries, ep |-> res.ep]]
        /\ fpPc' = [fpPc EXCEPT ![c] =
                      IF t = NTargets \/ res.out # "queued" THEN 0 ELSE t + 1]
  /\ UNCHANGED <<fanConf, fanRing, fpPdu>>
  /\ UNCHANGED <<ringVars, senderVars, cardVars, frameVars, srvVars, warnVars,
               lifeVars>>

\* BackendsInner::provide_statsd_pdu (lines 156-162), one turn of its map:
\* StatsdBackend::provide_statsd_pdu of the next target with the caller's
\* PDU; a failed try_send counts in the target's warning_log (lines
\* 126-137); after the last target the call returns
FanProvideTarget(c) ==
  /\ fpPc[c] \in Targets
  /\ LET t == fpPc[c]
         res == StatsdBackend_provide(fanConf[t], fanRing[t], fanQ[t], fpPdu[c])
     IN /\ res.out = "dropped" => fanWarn[t] < MaxWarn
        /\ fanQ' = [fanQ EXCEPT ![t] = res.q]
        /\ fanWarn' = IF res.out = "dropped"
                      THEN [fanWarn EXCEPT ![t] = @ + 1]
                      ELSE fanWarn
        /\ fanLast' = [fanLast EXCEPT ![c][t] =
                         [out |-> res.out, tries |-> res.tries, ep |-> res.ep]]
        /\ fpPc' = [fpPc EXCEPT ![c] = IF t = NTargets THEN 0 ELSE t + 1]
  /\ UNCHANGED <<fanConf, fanRing, fpPdu>>
  /\ UNCHANGED <<ringVars, senderVars, cardVars, frameVars, srvVars, warnVars,
               lifeVars>>

\* the sender task of endpoint e of target t takes a PDU from its queue
\* (statsd_client.rs, client_task: recv)
FanRecv(t, e) ==
  /\ fanQ[t][e] # <<>>
  /\ fanQ' = [fanQ EXCEPT ![t][e] = Tail(@)]
  /\ UNCHANGED <<fanConf, fanRing, fanWarn, fanLast, fpPc, fpPdu>>
  /\ UNCHANGED <<ringVars, senderVars, cardVars, frameVars, srvVars, warnVars,
               lifeVars>>

FanNext ==
  \/ \E c \in Callers, n \in Names : FanProvide(c, Pdu(n))
  \/ \E c \in Callers : FanProvideTarget(c)
  \/ \E t \in Targets, e \in Endpoints : FanRecv(t, e)

(***************************************************************************)
(* Part VI: the ingress servers and their shutdown (statsd_server.rs,      *)
(* lines 25-87 and 192-234).  run binds the listener, starts the UDP       *)
(* thread and loops over select!{tripwire, accept}; each accepted socket   *)
(* gets a client_handler task, which loops over select!{read, tripwire}.   *)
(* select! takes any branch that is ready.  What a handler does with the   *)
(* bytes it reads is Part IV; here a read matters only by how it ends.     *)
(* main awaits run alone (cmd/statsrelay.rs, lines 53-77): after run       *)
(* returns main leaves block_on and drops the runtime, and a handler task  *)
(* that has not ended by then takes no further step.  Between the return   *)
(* of run and the drop the worker threads of the threaded scheduler go on  *)
(* polling handler tasks; the basic scheduler polls none.                  *)
(***************************************************************************)
MaxConns == 2

Conns == 1..MaxConns

\* b"server closing due to shutdown, goodbye\n".len() (line 174)
GOODBYE_LEN == 40

\* bytes a socket that does not take the rest of the line at once takes
WriteChunk == 10

\* the runtime is alive: main has not reached drop(runtime) (line 77)
RuntimeAlive == sRun # "dropped"

\* run has returned
RunReturned == sRun \in {"returned", "dropped"}

\* the handler of h is in its select, reading
Reading(h) == sConn[h] = "active" /\ sWrites[h] = 0

\* the handler of h is inside timeout(1 s, write_all(goodbye))
Writing(h) == sConn[h] = "active" /\ sWrites[h] = 1

\* BytesMut::with_capacity(65535) (line 64)
UDP_BUF_CAPACITY == 65535

\* the datagrams a peer sends: "a:1|c" with either terminator or nothing,
\* followed by "b:2|c" or nothing
Dgrams ==
  {body \o tail : body \in {<<>>} \cup {PduA \o t : t \in Terms},
                  tail \in {<<>>, PduB}} \ {<<>>}

\* BytesMut::with_capacity(n): room for n bytes, and no byte in it
BytesMut_with_capacity(n) == [bytes |-> <<>>, capacity |-> n]

\* UdpSocket::recv_from(&mut buf[..]) on the datagram d: buf[..] is the
\* slice of the bytes in buf, Len(b.bytes) long; the datagram is copied into
\* the slice as far as the slice reaches, and the rest of it is discarded
recv_from(b, d) ==
  LET size == IF Len(d) < Len(b.bytes) THEN Len(d) ELSE Len(b.bytes) IN
    [size |-> size,
     buf |-> SubSeq(d, 1, size) \o SubSeq(b.bytes, size + 1, Len(b.bytes))]

\* lines 64-78 for the datagram d: the PDUs forwarded to the backends
\* (panic: the framer panicked)
UdpDatagram(d) ==
  LET got == recv_from(BytesMut_with_capacity(UDP_BUF_CAPACITY), d)
      r == process_buffer_newlines(got.buf)
  IN IF r.panic
     THEN [pdus |-> <<>>, panic |-> TRUE]
     ELSE [pdus |-> r.ret \o StatsdPDU_new(r.buf), panic |-> FALSE]

\* run before its first select (lines 192-203), the tripwire unfired
SrvInit ==
  /\ sTripped = FALSE
  /\ sRun = "accept"
  /\ sGate = FALSE
  /\ sUdp = "check"
  /\ sRecvAfterGate = 0
  /\ sConn = [h \in Conns |-> "none"]
  /\ sWrites = [h \in Conns |-> 0]
  /\ sSent = [h \in Conns |-> 0]
  /\ sHow = [h \in Conns |-> "none"]
  /\ sAtTrip = [h \in Conns |-> FALSE]
  /\ sLast = <<>>
  /\ sFwd = <<>>

\* the servers not stepping
SrvIdle == SrvInit

\* the signal task fires the tripwire (cmd/statsrelay.rs: sender.cancel())
SrvTrip ==
  /\ ~sTripped
  /\ sTripped' = TRUE
  /\ sAtTrip' = [h \in Conns |-> sConn[h] = "active"]
  /\ UNCHANGED <<sRun, sGate, sUdp, sRecvAfterGate, sConn, sWrites, sSent, sHow, sLast, sFwd>>
  /\ UNCHANGED <<ringVars, senderVars, cardVars, frameVars, fanVars, warnVars,
               lifeVars>>

\* the accept branch of the select (lines 210-217): a client_handler is
\* spawned for the socket; the branch can be taken while the tripwire is
\* fired too, when a connection is waiting
SrvAccept(h) ==
  /\ sRun = "accept"
  /\ sConn[h] = "none"
  /\ \A g \in 1..(h - 1) : sConn[g] # "none"
  /\ sConn' = [sConn EXCEPT ![h] = "active"]
  /\ sAtTrip' = [sAtTrip EXCEPT ![h] = sTripped]
  /\ UNCHANGED <<sTripped, sRun, sGate, sUdp, sRecvAfterGate, sWrites, sSent, sHow, sLast, sFwd>>
  /\ UNCHANGED <<ringVars, senderVars, cardVars, frameVars, fanVars, warnVars,
               lifeVars>>

\* the tripwire branch of the select (lines 206-209): the accept loop returns
SrvAcceptExit ==
  /\ sRun = "accept"
  /\ sTripped
  /\ sRun' = "drop"
  /\ UNCHANGED <<sTripped, sGate, sUdp, sRecvAfterGate, sConn, sWrites, sSent, sHow,
                 sAtTrip, sLast, sFwd>>
  /\ UNCHANGED <<ringVars, senderVars, cardVars, frameVars, fanVars, warnVars,
               lifeVars>>

\* drop(udp) (line 228, UdpServer::drop lines 29-33): the gate is set
SrvDropUdp ==
  /\ sRun = "drop"
  /\ sGate' = TRUE
  /\ sRun' = "join"
  /\ UNCHANGED <<sTripped, sUdp, sRecvAfterGate, sConn, sWrites, sSent, sHow, sAtTrip,
                 sLast, sFwd>>
  /\ UNCHANGED <<ringVars, senderVars, cardVars, frameVars, fanVars, warnVars,
               lifeVars>>

\* udp_join.join() (lines 229-233): run returns when the UDP thread is gone
SrvJoin ==
  /\ sRun = "join"
  /\ sUdp = "exited"
  /\ sRun' = "returned"
  /\ UNCHANGED <<sTripped, sGate, sUdp, sRecvAfterGate, sConn, sWrites, sSent, sHow,
                 sAtTrip, sLast, sFwd>>
  /\ UNCHANGED <<ringVars, senderVars, cardVars, frameVars, fanVars, warnVars,
               lifeVars>>

\* main leaves block_on and drops the runtime (cmd/statsrelay.rs, lines
\* 74-77): the tasks still alive are dropped where they are
SrvDropRuntime ==
  /\ sRun = "returned"
  /\ sRun' = "dropped"
  /\ UNCHANGED <<sTripped, sGate, sUdp, sRecvAfterGate, sConn, sWrites, sSent, sHow,
                 sAtTrip, sLast, sFwd>>
  /\ UNCHANGED <<ringVars, senderVars, cardVars, frameVars, fanVars, warnVars,
               lifeVars>>

\* the UDP thread looks at the gate (lines 61-63)
UdpCheckGate ==
  /\ sUdp = "check"
  /\ sUdp' = IF sGate THEN "exited" ELSE "recv"
  /\ UNCHANGED <<sTripped, sRun, sGate, sRecvAfterGate, sConn, sWrites, sSent, sHow,
                 sAtTrip, sLast, sFwd>>
  /\ UNCHANGED <<ringVars, senderVars, cardVars, frameVars, fanVars, warnVars,
               lifeVars>>

\* recv_from returns a datagram (lines 66-79): it is framed and forwarded, a
\* fresh buf is made on the next turn of the loop
UdpRecv(d) ==
  /\ sUdp = "recv"
  /\ LET res == UdpDatagram(d) IN
       /\ sUdp' = IF res.panic THEN "panicked" ELSE "check"
       /\ sFwd' = res.pdus
  /\ sLast' = d
  /\ sRecvAfterGate' = IF sGate THEN sRecvAfterGate + 1 ELSE sRecvAfterGate
  /\ UNCHANGED <<sTripped, sRun, sGate, sConn, sWrites, sSent, sHow, sAtTrip>>
  /\ UNCHANGED <<ringVars, senderVars, cardVars, frameVars, fanVars, warnVars,
               lifeVars>>

\* recv_from returns WouldBlock after the read timeout of 1 s, or another
\* error (lines 80-81)
UdpRecvNone ==
  /\ sUdp = "recv"
  /\ sUdp' = "check"
  /\ sRecvAfterGate' = IF sGate THEN sRecvAfterGate + 1 ELSE sRecvAfterGate
  /\ UNCHANGED <<sTripped, sRun, sGate, sConn, sWrites, sSent, sHow, sAtTrip, sLast, sFwd>>
  /\ UNCHANGED <<ringVars, senderVars, cardVars, frameVars, fanVars, warnVars,
               lifeVars>>

\* client_handler, the tripwire branch of its select (lines 131, 170-176):
\* write_all of the goodbye line is called under a timeout of a second, and
\* the handler waits in it, reading no more
SrvHandlerShutdown(h) ==
  /\ RuntimeAlive
  /\ Reading(h)
  /\ sTripped
  /\ sWrites' = [sWrites EXCEPT ![h] = @ + 1]
  /\ UNCHANGED <<sTripped, sRun, sGate, sUdp, sRecvAfterGate, sConn, sSent, sHow,
                 sAtTrip, sLast, sFwd>>
  /\ UNCHANGED <<ringVars, senderVars, cardVars, frameVars, fanVars, warnVars,
               lifeVars>>

\* the socket takes some more bytes of the goodbye line, WriteChunk of them or
\* all that are left; with the last of them
\* write_all returns, the handler breaks and drops the socket (lines 177, 189)
SrvHandlerWrite(h) ==
  /\ RuntimeAlive
  /\ Writing(h)
  /\ \E n \in {WriteChunk, GOODBYE_LEN - sSent[h]} :
       /\ n >= 1
       /\ sSent[h] + n <= GOODBYE_LEN
       /\ sSent' = [sSent EXCEPT ![h] = @ + n]
       /\ IF sSent[h] + n = GOODBYE_LEN
          THEN /\ sConn' = [sConn EXCEPT ![h] = "closed"]
               /\ sHow' = [sHow EXCEPT ![h] = "shutdown"]
          ELSE UNCHANGED <<sConn, sHow>>
  /\ UNCHANGED <<sTripped, sRun, sGate, sUdp, sRecvAfterGate, sWrites, sAtTrip,
                 sLast, sFwd>>
  /\ UNCHANGED <<ringVars, senderVars, cardVars, frameVars, fanVars, warnVars,
               lifeVars>>

\* write_all fails, or the second is over before the line is written: the
\* result is ignored, the handler breaks and drops the socket (lines 171-177)
SrvHandlerWriteEnd(h) ==
  /\ RuntimeAlive
  /\ Writing(h)
  /\ sConn' = [sConn EXCEPT ![h] = "closed"]
  /\ sHow' = [sHow EXCEPT ![h] = "shutdown"]
  /\ UNCHANGED <<sTripped, sRun, sGate, sUdp, sRecvAfterGate, sWrites, sSent, sAtTrip,
                 sLast, sFwd>>
  /\ UNCHANGED <<ringVars, senderVars, cardVars, frameVars, fanVars, warnVars,
               lifeVars>>

\* client_handler, the read branch ending the handler: end of stream, a
\* read timeout or a socket error (lines 135-160, 179-186): break, no write
SrvHandlerLeave(h) ==
  /\ RuntimeAlive
  /\ Reading(h)
  /\ sConn' = [sConn EXCEPT ![h] = "closed"]
  /\ sHow' = [sHow EXCEPT ![h] = "read"]
  /\ UNCHANGED <<sTripped, sRun, sGate, sUdp, sRecvAfterGate, sWrites, sSent, sAtTrip,
                 sLast, sFwd>>
  /\ UNCHANGED <<ringVars, senderVars, cardVars, frameVars, fanVars, warnVars,
               lifeVars>>

\* client_handler, the read branch with bytes holding an empty line (lines
\* 161-169): process_buffer_newlines panics and the task ends
SrvHandlerPanic(h) ==
  /\ RuntimeAlive
  /\ Reading(h)
  /\ sConn' = [sConn EXCEPT ![h] = "panicked"]
  /\ sHow' = [sHow EXCEPT ![h] = "panic"]
  /\ UNCHANGED <<sTripped, sRun, sGate, sUdp, sRecvAfterGate, sWrites, sSent, sAtTrip,
                 sLast, sFwd>>
  /\ UNCHANGED <<ringVars, senderVars, cardVars, frameVars, fanVars, warnVars,
               lifeVars>>

SrvNext ==
  \/ SrvTrip
  \/ \E h \in Conns : SrvAccept(h)
  \/ SrvAcceptExit
  \/ SrvDropUdp
  \/ SrvJoin
  \/ SrvDropRuntime
  \/ UdpCheckGate
  \/ \E d \in Dgrams : UdpRecv(d)
  \/ UdpRecvNone
  \/ \E h \in Conns : SrvHandlerShutdown(h)
  \/ \E h \in Conns : SrvHandlerWrite(h)
  \/ \E h \in Conns : SrvHandlerWriteEnd(h)
  \/ \E h \in Conns : SrvHandlerLeave(h)
  \/ \E h \in Conns : SrvHandlerPanic(h)

(***************************************************************************)
(* Part VII: the queue-full warning of a target (backends.rs, lines        *)
(* 125-139).  A StatsdBackend has one warning_log counter (line 19); a     *)
(* try_send that fails adds one to it and logs a line naming the endpoint  *)
(* when the value before the addition is a multiple of 1000.  A provide    *)
(* whose try_send succeeds touches none of this.                           *)
(***************************************************************************)
MaxDrops == 1002
MaxOtherDrops == 2

\* count % 1000 == 0 (line 130)
WARN_EVERY == 1000

\* a target with every queue full, before its first drop
WarnInit ==
  /\ wlCount = 0
  /\ wlDrops = [e \in Endpoints |-> 0]
  /\ wlLines = [e \in Endpoints |-> 0]

\* the target not receiving
WarnIdle == WarnInit

\* a variant that counts the drops of each endpoint by themselves
WarnDrop_perEndpoint(e) ==
  /\ wlCount < MaxDrops
  /\ e # 1 => wlDrops[e] < MaxOtherDrops
  /\ wlCount' = wlCount + 1
  /\ wlDrops' = [wlDrops EXCEPT ![e] = @ + 1]
  /\ wlLines' = IF wlDrops[e] % WARN_EVERY = 0
                THEN [wlLines EXCEPT ![e] = @ + 1]
                ELSE wlLines
  /\ UNCHANGED <<ringVars, senderVars, cardVars, frameVars, fanVars, srvVars,
               lifeVars>>

\* StatsdBackend::provide_statsd_pdu picks the client of endpoint e and its
\* try_send fails (lines 125-138): count is the value fetch_add returns, the
\* one before the addition
WarnDrop(e) ==
  /\ wlCount < MaxDrops
  /\ e # 1 => wlDrops[e] < MaxOtherDrops
  /\ LET count == wlCount IN
       /\ wlCount' = wlCount + 1
       /\ wlLines' = IF count % WARN_EVERY = 0
                     THEN [wlLines EXCEPT ![e] = @ + 1]
                     ELSE wlLines
  /\ wlDrops' = [wlDrops EXCEPT ![e] = @ + 1]
  /\ UNCHANGED <<ringVars, senderVars, cardVars, frameVars, fanVars, srvVars,
               lifeVars>>

WarnNext == \E e \in Endpoints : WarnDrop(e)

\* main built the runtime and awaits run (cmd/statsrelay.rs, lines 50-74)
LifeIdle == rtPc = "running"

\* the warning counter alone
WarnSpecInit == RingIdle /\ StatsdClient_new /\ CardIdle /\ FrameIdle /\ FanIdle /\ SrvIdle /\ WarnInit /\ LifeIdle

WarnSpec == WarnSpecInit /\ [][WarnNext]_vars

\* the ingress servers alone
SrvSpecInit == RingIdle /\ StatsdClient_new /\ CardIdle /\ FrameIdle /\ FanIdle /\ SrvInit /\ WarnIdle /\ LifeIdle

SrvSpec == SrvSpecInit /\ [][SrvNext]_vars

\* select! polls the fired tripwire every time it is entered, the timeout
\* around write_all fires, both while the runtime is alive; the UDP thread is
\* an OS thread of its own and its recv_from returns within the read
\* timeout; and run is awaited by main
SrvFairness ==
  /\ WF_vars(SrvAcceptExit)
  /\ WF_vars(SrvDropUdp)
  /\ WF_vars(SrvJoin)
  /\ WF_vars(SrvDropRuntime)
  /\ WF_vars(UdpCheckGate)
  /\ WF_vars(UdpRecvNone)
  /\ \A h \in Conns : WF_vars(SrvHandlerShutdown(h))
  /\ \A h \in Conns : WF_vars(SrvHandlerWriteEnd(h))

FairSrvSpec == SrvSpec /\ SrvFairness

\* the fan-out alone
FanSpecInit == RingIdle /\ StatsdClient_new /\ CardIdle /\ FrameIdle /\ FanInit /\ SrvIdle /\ WarnIdle /\ LifeIdle

FanSpec == FanSpecInit /\ [][FanNext]_vars

\* one connection alone
FrameSpecInit == RingIdle /\ StatsdClient_new /\ CardIdle /\ FrameInit /\ FanIdle /\ SrvIdle /\ WarnIdle /\ LifeIdle

FrameSpec == FrameSpecInit /\ [][FrameNext]_vars

\* the processors, the ingress and the fan-out at rest
ProcIdle == CardIdle /\ FrameIdle /\ FanIdle /\ SrvIdle /\ WarnIdle /\ LifeIdle

\* the cardinality processor alone
CardSpecInit == RingIdle /\ StatsdClient_new /\ CardInit /\ FrameIdle /\ FanIdle /\ SrvIdle /\ WarnIdle /\ LifeIdle

CardSpec == CardSpecInit /\ [][CardNext]_vars

SenderInit == RingIdle /\ StatsdClient_new /\ ProcIdle

SenderNext ==
  \/ CloneHandle
  \/ DropHandle
  \/ QueuePush
  \/ TickerWake
  \/ TickerSend
  \/ ClientRecvPdu
  \/ ClientRecvClosed
  \/ ClientTick
  \/ ClientSend
  \/ ConnectOk
  \/ ConnectFail
  \/ BackoffDone
  \/ ConnectAbort
  \/ SenderRecv
  \/ SenderLoopEmpty
  \/ SenderReconnect
  \/ \E n \in 1..(MaxPdus * 3) : SenderWrite(n)
  \/ \E result \in {"Ok0", "Err"} : SenderWriteDead(result)

SenderSpec == SenderInit /\ [][SenderNext]_vars

(***************************************************************************)
(* The tasks on the runtime of main (cmd/statsrelay.rs, lines 50-77).      *)
(* The tasks take their steps while the runtime exists.  run moves its     *)
(* Backends into the accept loop and gives a clone to the UDP thread and   *)
(* to every client_handler (statsd_server.rs, lines 197, 215).  At the     *)
(* signal the accept loop returns and its Backends goes; run then waits    *)
(* for the UDP thread, whose clone goes when the thread ends, so the last  *)
(* clone can go while run is still awaited, or after run has returned      *)
(* when a handler held it.  With the last clone the StatsdClient handles   *)
(* are released.  main leaves block_on and drops the runtime, and the      *)
(* tasks that have not returned by then are dropped where they are.  A     *)
(* handle released with no signal received is one released by a reload     *)
(* (DropHandle).                                                           *)
(***************************************************************************)
\* the runtime exists
SenderAlive == rtPc # "dropped"

\* the signal task cancels the tripwire of run (cmd/statsrelay.rs, lines
\* 66-71) and the accept loop returns (statsd_server.rs, lines 206-209)
SenderSignal ==
  /\ rtPc = "running"
  /\ rtPc' = "stopping"
  /\ UNCHANGED <<ringVars, senderVars, cardVars, frameVars, fanVars, srvVars, warnVars>>

\* the UDP thread is joined and run.await returns (statsd_server.rs, lines
\* 227-232; cmd/statsrelay.rs, line 74)
SenderRunEnds ==
  /\ rtPc = "stopping"
  /\ rtPc' = "ended"
  /\ UNCHANGED <<ringVars, senderVars, cardVars, frameVars, fanVars, srvVars, warnVars>>

\* the last clone of Backends is dropped, that of the UDP thread while run
\* is still awaited or that of the last handler: the handles of the client
\* are released and the tripwire fires
SenderBackendsDrop ==
  /\ rtPc \in {"stopping", "ended"}
  /\ handles > 0
  /\ handles' = 0
  /\ tripped' = TRUE
  /\ UNCHANGED rtPc
  /\ UNCHANGED <<ringVars, cardVars, frameVars, fanVars, srvVars, warnVars>>
  /\ UNCHANGED <<queue, nextPdu, taken, ctPc, buf, ctWhy, batch, tickBatch,
                 delayed_sends, chan, tickChan, tkPc, wtPc, wtFirst, lazy_connect,
                 wbuf, wLen, wCalls, wShort, connections_aborted, disp, wire>>

\* drop(runtime) (cmd/statsrelay.rs, line 77): every task left is dropped,
\* and with the handlers the clones of Backends they held
SenderRuntimeDrop ==
  /\ rtPc = "ended"
  /\ rtPc' = "dropped"
  /\ handles' = 0
  /\ tripped' = TRUE
  /\ UNCHANGED <<ringVars, cardVars, frameVars, fanVars, srvVars, warnVars>>
  /\ UNCHANGED <<queue, nextPdu, taken, ctPc, buf, ctWhy, batch, tickBatch,
                 delayed_sends, chan, tickChan, tkPc, wtPc, wtFirst, lazy_connect,
                 wbuf, wLen, wCalls, wShort, connections_aborted, disp, wire>>

RunSenderNext ==
  \/ SenderAlive /\ SenderNext
  \/ SenderSignal
  \/ SenderRunEnds
  \/ SenderBackendsDrop
  \/ SenderRuntimeDrop

RunSenderSpec == SenderInit /\ [][RunSenderNext]_vars

\* The scheduling the code gives.  While the runtime exists every task that
\* can take a step takes one, and a form_connection that is entered again
\* and again with the tripwire fired takes the tripwire branch of its select
\* (the connect attempt is pending when the select first polls it).  Once
\* the signal has come the UDP thread ends within its read timeout and run
\* returns, and main goes from the return of run to drop(runtime).
\* write_buf (line 165) is awaited without a timeout and outside any
\* select: a peer that takes nothing keeps the call pending, and nothing
\* makes it return.  Nothing makes the signal come either.
SenderFairness ==
  /\ WF_vars(SenderAlive /\ TickerWake)
  /\ WF_vars(SenderAlive /\ TickerSend)
  /\ WF_vars(SenderAlive /\ ClientRecvPdu)
  /\ WF_vars(SenderAlive /\ ClientRecvClosed)
  /\ WF_vars(SenderAlive /\ ClientTick)
  /\ WF_vars(SenderAlive /\ ClientSend)
  /\ WF_vars(SenderAlive /\ BackoffDone)
  /\ SF_vars(SenderAlive /\ ConnectAbort)
  /\ WF_vars(SenderAlive /\ SenderRecv)
  /\ WF_vars(SenderAlive /\ SenderLoopEmpty)
  /\ WF_vars(SenderAlive /\ SenderReconnect)
  /\ WF_vars(SenderRunEnds)
  /\ WF_vars(SenderRuntimeDrop)

FairSenderSpec == RunSenderSpec /\ SenderFairness

Init == InitRing /\ StatsdClient_new /\ ProcIdle

Next ==
  \/ \E p \in Providers, n \in Names : ProvideBegin(p, Pdu(n))
  \/ \E p \in Providers : ProvideSend(p)
  \/ \E t \in TaskIds : SenderTaskRecv(t)
  \/ \E t \in TaskIds : SenderTaskExit(t)
  \/ \E map \in SeqsUpTo(Endpoints, MaxRing) : ReloadBegin(map)
  \/ ReloadSnapshot
  \/ ReloadBuild
  \/ ReloadLockWrite
  \/ ReloadSwap
  \/ ReloadReturn

Spec == Init /\ [][Next]_vars

(***************************************************************************)
(* Claims on the backend (specification Spec).                             *)
(***************************************************************************)
\* the endpoint strings of a ring, slot by slot
EndpointsOf(r) == [i \in DOMAIN r |-> taskEp[r[i]]]

\* C1: provide_statsd_pdu never waits on the receive queue: its try_send step
\* is always enabled; on a full queue it leaves every queue unchanged and adds
\* exactly one to the warning counter; with room it appends the PDU at the
\* tail of the picked client's queue and leaves the counter unchanged.
C1_DropDontBlock ==
  /\ [](\A p \in Providers : pvPc[p] = "locked" => ENABLED ProvideSend(p))
  /\ [][\A p \in Providers :
         (pvPc[p] = "locked" /\ pvPc'[p] = "idle") =>
           LET t == pvClient[p] IN
             /\ Len(rq[t]) >= QueueCap =>
                   rq' = rq /\ warning_log' = warning_log + 1
             /\ Len(rq[t]) < QueueCap =>
                   /\ rq' = [rq EXCEPT ![t] = Append(rq[t], PduClone(pvPdu[p]))]
                   /\ warning_log' = warning_log]_vars

\* C1 witness: a PDU was dropped on a full queue of a client of the ring
C1_Witness ==
  /\ warning_log >= 1
  /\ \E i \in DOMAIN ring : Len(rq[ring[i]]) = QueueCap

\* C2: after reload_backends every client of the old ring whose endpoint is in
\* the new shard map is still a client of the ring, its task neither replaced
\* nor signalled to shut down (its queue stays with it).
C2_ReloadKeepsClients ==
  rlPc = "idle" =>
    \A i \in DOMAIN rlOld :
      taskEp[rlOld[i]] \in Range(shard_map) =>
        rlOld[i] \in Range(ring) /\ ~tripwire[rlOld[i]]

\* C3: all ring slots of one endpoint share one sender task.
C3_OneTaskPerEndpoint ==
  \A i, j \in DOMAIN ring :
    taskEp[ring[i]] = taskEp[ring[j]] => ring[i] = ring[j]

\* C4: the ring is at every moment the complete old ring or the complete new
\* one; a provide that holds the read guard still sees the ring it measured
\* and picked from; the lock accounting is exact, reload_backends holds no read
\* guard of its own when it asks for the write guard, and whoever waits on the
\* lock is waited on by nobody: the holder can always take its next step.
C4_RingAtomic ==
  /\ EndpointsOf(ring) = EndpointsOf(rlOld) \/ EndpointsOf(ring) = shard_map
  /\ \A p \in Providers :
       pvPc[p] = "locked" =>
         /\ pvLen[p] = Len(ring) /\ pvLen[p] > 0
         /\ pvClient[p] = pick_from(ring, PickCode(Len(ring), pvPdu[p]))
  /\ rwReaders = Cardinality({p \in Providers : pvPc[p] = "locked"}) + rlGuards
  /\ rlPc = "swap" => rlGuards = 0
  /\ (rlPc = "swap" /\ rwReaders > 0) =>
       \E p \in Providers : pvPc[p] = "locked" /\ ENABLED ProvideSend(p)
  /\ (rlPc = "swap" /\ rwReaders = 0) => ENABLED ReloadSwap

\* C4 witness: the new ring is built and differs from the old one, the reload
\* waits for the write guard while a provide holds the read guard
C4_Witness ==
  /\ rlPc = "swap"
  /\ EndpointsOf(new_ring) = shard_map
  /\ shard_map # EndpointsOf(rlOld)
  /\ \E p \in Providers : pvPc[p] = "locked"

(***************************************************************************)
(* Claims on the sender task (specifications SenderSpec, FairSenderSpec).  *)
(***************************************************************************)
RECURSIVE Flatten(_)
Flatten(bs) == IF bs = <<>> THEN <<>> ELSE Head(bs) \o Flatten(Tail(bs))

\* the bytes accepted into the receive queue so far
Accepted == Stream(nextPdu - 1)

\* the bytes client_task took that are still on their way to the upstream
InFlight == wbuf \o Flatten(chan) \o buf

\* the subsequence of s at the positions where d is 0
RECURSIVE Kept(_, _)
Kept(s, d) ==
  IF d = <<>> THEN <<>>
  ELSE (IF Head(d) = 0 THEN <<Head(s)>> ELSE <<>>) \o Kept(Tail(s), Tail(d))

\* the three tasks have ended: each has returned, or the runtime they ran on
\* is dropped
TasksEnded ==
  \/ ctPc = "done" /\ SenderReturned /\ tkPc = "done"
  \/ rtPc = "dropped"

\* C5: once the last handle is released, client_task, client_sender and the
\* ticker all end, wherever client_sender is at that moment and whether or
\* not the buffer channel is full.
C5_TasksTerminate ==
  (handles = 0) ~> TasksEnded

\* C6: while a handle exists the tripwire has not fired, none of the three
\* tasks returned, and the queue accepts a PDU unless it is full; the tripwire
\* fires only with no handle left.
C6_AliveWhileHandled ==
  /\ handles > 0 =>
       /\ ~tripped
       /\ ctPc # "done" /\ ~SenderReturned /\ tkPc # "done"
       /\ ~QueueClosed
       /\ (Len(queue) < QueueCap /\ nextPdu <= MaxPdus) => ENABLED QueuePush
  /\ tripped => handles = 0

\* C6 witness: a handle exists, the task has taken PDUs, the queue is full
C6_Witness ==
  /\ handles > 0
  /\ taken > 0
  /\ Len(queue) = QueueCap

\* C7 as claimed: when both tasks returned, every accepted byte was handed to
\* the write task and written (or trimmed on a connection death).
C7_NothingDiscarded ==
  (ctPc = "done" /\ SenderReturned) => Len(disp) = Len(Accepted)

\* C7 amended: when client_sender returns because the buffer channel is closed
\* and empty (line 142), every accepted byte was taken, handed over and
\* written or trimmed; it returns from a reconnect (line 158) only after the
\* tripwire fired, and only then are accepted bytes discarded.
C7_DrainUnlessAborted ==
  /\ wtPc = "done" =>
       /\ ctPc = "done"
       /\ Len(disp) = Len(Accepted)
       /\ taken = nextPdu - 1
       /\ InFlight = <<>> /\ queue = <<>>
  /\ wtPc = "aborted" => tripped
  /\ (ctPc = "done" /\ ~SenderReturned) => (buf = <<>> /\ queue = <<>>)

\* C7 witness: the queue closed with PDUs accepted, and all of them were
\* written before both tasks returned
C7_Witness ==
  /\ ctPc = "done" /\ wtPc = "done"
  /\ nextPdu > 2
  /\ wire = Accepted

\* C8: the wire holds the bytes client_task took, in the order taken, each at
\* most once, less exactly the bytes trimmed; each trim ends with the first
\* newline it meets; and until client_sender returns from a reconnect the
\* bytes not yet written or trimmed are all still in flight, in order.
C8_InOrder ==
  /\ Len(disp) <= Len(Stream(taken))
  /\ wire = Kept(Stream(taken), disp)
  /\ \A i \in DOMAIN disp :
       disp[i] > 0 =>
         ((Stream(taken)[i] = NL) <=> (i = Len(disp) \/ disp[i + 1] # disp[i]))
  /\ wtPc # "aborted" =>
       InFlight = SubSeq(Stream(taken), Len(disp) + 1, Len(Stream(taken)))

\* C8 witness: a connection died inside a PDU, and a later PDU was written
C8_Witness ==
  /\ \E i \in DOMAIN disp : i > 1 /\ disp[i] > 0 /\ disp[i - 1] = 0
                            /\ Stream(taken)[i - 1] # NL
  /\ disp # <<>> /\ disp[Len(disp)] = 0
  /\ wire # <<>> /\ wire[Len(wire)] = NL

\* the PDUs taken since the last tick, while they stay below SEND_THRESHOLD,
\* are all in the one buffer, and that buffer is what a tick or the close of
\* the queue hands over
BatchInOneBuffer ==
  /\ (ctPc = "select" /\ Len(batch) < SEND_THRESHOLD) => buf = batch
  /\ (ctPc = "send" /\ ctWhy \in {"tick", "closed"}
        /\ Len(tickBatch) < SEND_THRESHOLD) => buf = tickBatch

\* C9 as claimed: PDUs below SEND_THRESHOLD between two ticks go out as one
\* buffer, and that buffer gets at most one write call.
C9_OneWriteCall ==
  /\ BatchInOneBuffer
  /\ wLen < SEND_THRESHOLD => wCalls <= 1

\* C9 amended: they go out as one buffer, and that buffer gets one write call
\* unless a call wrote only part of it or the connection died.
C9_WriteCombining ==
  /\ BatchInOneBuffer
  /\ (wLen < SEND_THRESHOLD /\ wCalls > 1) => wShort
  /\ (wtPc = "recv" /\ wLen > 0 /\ ~wShort) => wCalls = 1

\* C9 witness: two PDUs below the threshold left as one buffer and were
\* written by one call
C9_Witness ==
  /\ wtPc = "recv"
  /\ wLen = Len(Line(1) \o Line(2)) /\ wLen < SEND_THRESHOLD
  /\ wCalls = 1 /\ ~wShort
  /\ wire = Line(1) \o Line(2)

\* C10 as claimed: the main loop of client_task is never blocked: whenever it
\* is at its hand-over, the hand-over can be taken.
C10_NeverBlocked == ctPc = "send" => ENABLED ClientSend

\* C10 amended: a tick that client_task handles with a non-empty buffer
\* records delayed_sends and starts the hand-over of the whole buffer, a tick
\* with an empty buffer hands over nothing; a waiting tick can always be
\* handled while client_task is in its select; and the hand-over waits exactly
\* while the buffer channel is full and client_sender has not returned.
C10_TickFlush ==
  /\ [][tickChan' < tickChan =>
          IF buf # <<>>
          THEN /\ delayed_sends' = delayed_sends + 1
               /\ ctPc' = "send" /\ buf' = buf /\ chan' = chan
          ELSE UNCHANGED <<delayed_sends, ctPc, buf, chan>>]_vars
  /\ []((ctPc = "select" /\ tickChan > 0) => ENABLED ClientTick)
  /\ [](ctPc = "send" =>
          (ENABLED ClientSend <=> (Len(chan) < BufChanCap \/ SenderReturned)))

\* C10 witness: a tick flushed a non-empty buffer, and the hand-over waits on
\* a full channel while client_sender sleeps in its reconnect backoff
C10_Witness ==
  /\ ctPc = "send" /\ ctWhy = "tick" /\ delayed_sends > 0
  /\ Len(chan) = BufChanCap
  /\ wtPc = "backoff"

(***************************************************************************)
(* Claims on the cardinality processor (specification CardSpec).           *)
(***************************************************************************)
\* a step of tick that replaces the oldest sub-filter
Rotation == Expired(filters, now) /\ filters' = MultiCuckoo_rotate(filters, now)

\* C11: while the oldest sub-filter holds more than size_limit entries, a
\* provide of an identity it does not contain is rejected: no sub-filter
\* changes and flagged_metrics grows by one; and the oldest sub-filter stays
\* over the limit, its length never falling, until a rotation replaces it.
C11_Admission ==
  /\ [][\A sample \in Ids :
          ( /\ provide_statsd(sample)
            /\ MultiCuckoo_len(filters) > SizeLimit
            /\ ~MultiCuckoo_contains(filters, sample) )
          => (filters' = filters /\ flagged' = flagged + 1)]_vars
  /\ [][(MultiCuckoo_len(filters) > SizeLimit /\ ~Rotation)
          => MultiCuckoo_len(filters') >= MultiCuckoo_len(filters)]_vars

\* C11 witness: an identity was rejected over the limit, and rotations have
\* since made a sub-filter within the limit the oldest
C11_Witness ==
  /\ flagged >= 1
  /\ rotated
  /\ MultiCuckoo_len(filters) <= SizeLimit

\* C12: from a fresh filter, with no rotation and every identity offered once,
\* exactly the first size_limit + 1 identities offered are admitted and every
\* later one is rejected and counted.
C12_FirstLimitPlusOne ==
  (~rotated /\ ~cardRepeat) =>
    /\ Cardinality(admitted) = (IF Cardinality(cardSeen) <= SizeLimit + 1
                         THEN Cardinality(cardSeen) ELSE SizeLimit + 1)
    /\ flagged = Cardinality(cardSeen) - Cardinality(admitted)

\* C12 witness: size_limit + 1 identities admitted, a later one rejected
C12_Witness ==
  /\ ~rotated /\ ~cardRepeat
  /\ Cardinality(admitted) = SizeLimit + 1
  /\ Cardinality(cardSeen) > SizeLimit + 1
  /\ flagged = 1

\* C13 as claimed (scenario S6): after size_limit distinct identities were
\* admitted into a fresh filter, every further distinct identity is rejected.
C13_S6 ==
  (~rotated /\ ~cardRepeat /\ Cardinality(cardSeen) >= SizeLimit) =>
    Cardinality(admitted) = SizeLimit

\* C13 amended: the first size_limit identities are admitted, the next one is
\* admitted as well, and each one after it is rejected; every sub-filter then
\* holds exactly the size_limit + 1 admitted identities, once each.
C13_S6PlusOne ==
  (~rotated /\ ~cardRepeat) =>
    /\ Cardinality(cardSeen) <= SizeLimit => (admitted = cardSeen /\ flagged = 0)
    /\ Cardinality(cardSeen) > SizeLimit =>
         /\ Cardinality(admitted) = SizeLimit + 1
         /\ flagged = Cardinality(cardSeen) - (SizeLimit + 1)
         /\ \A k \in 1..Buckets : \A i \in Ids :
              filters[k].filter[i] = (IF i \in admitted THEN 1 ELSE 0)

\* C13 witness: the identity offered after the first size_limit ones was
\* admitted, the one after it rejected
C13_Witness ==
  /\ ~rotated /\ ~cardRepeat
  /\ Cardinality(cardSeen) = SizeLimit + 2
  /\ MultiCuckoo_len(filters) = SizeLimit + 1
  /\ flagged = 1

\* C14: an identity admitted at time t and not admitted again is contained at
\* every time before t + window * B.
C14_LowerBound ==
  (lastIns >= 0 /\ now < lastIns + Window * Buckets) =>
    MultiCuckoo_contains(filters, watched)

\* C15 as claimed: with a tick at least once per window, an identity admitted
\* at time t and not admitted again is not contained at any time after
\* t + window * (B + 1).
C15_UpperBound ==
  (regular /\ lastIns >= 0 /\ now > lastIns + Window * (Buckets + 1)) =>
    ~MultiCuckoo_contains(filters, watched)

\* the latest time at which an identity admitted at time t can still be
\* contained under regular ticks is reached
C15_LastMoment ==
  /\ regular
  /\ lastIns > Window * Buckets
  /\ now = lastIns + Window * (2 * Buckets + 1) - 1
  /\ MultiCuckoo_contains(filters, watched)

\* C15 amended: with a tick at least once per window, it is not contained at
\* any time after t + window * (2B + 1): its sub-filters have all expired at
\* t + window * (B + 1), and every tick after that retires one of them.
C15_AgedOut ==
  (regular /\ lastIns >= 0 /\ now > lastIns + Window * (2 * Buckets + 1)) =>
    ~MultiCuckoo_contains(filters, watched)

\* C15 witness: with regular ticks an identity admitted after both sub-filters
\* of the construction could have been retired has aged out, and the time
\* t + window * (2B + 1) has passed
C15_Witness ==
  /\ regular
  /\ lastIns > Window * Buckets
  /\ now > lastIns + Window * (2 * Buckets + 1)
  /\ rotSince[watched] = Buckets
  /\ ~MultiCuckoo_contains(filters, watched)

\* C16 as claimed: the FIFO holds exactly B sub-filters with strictly
\* increasing valid_until, for any non-decreasing tick times.
C16_StrictlyIncreasing ==
  /\ Len(filters) = Buckets
  /\ \A k \in 1..(Buckets - 1) : filters[k].valid_until < filters[k + 1].valid_until

\* C16 amended: the FIFO holds exactly B sub-filters; their valid_until never
\* decrease from oldest to newest, and they increase strictly when every tick
\* comes at a later time than the tick before it.
C16_Fifo ==
  /\ Len(filters) = Buckets
  /\ \A k \in 1..(Buckets - 1) : filters[k].valid_until <= filters[k + 1].valid_until
  /\ strictTicks =>
       \A k \in 1..(Buckets - 1) : filters[k].valid_until < filters[k + 1].valid_until

\* C16 witness: every sub-filter of the construction has been replaced, by
\* ticks at strictly increasing times
C16_Witness ==
  /\ strictTicks
  /\ rotated
  /\ filters[1].valid_until > Window * Buckets

\* C17: an admitted identity is in the sub-filter at position k (1 the
\* oldest) exactly while at most B - k rotations have passed since its last
\* admission: it is contained after fewer than B rotations and neither
\* contained nor counted in len after B; an identity never admitted is in no
\* sub-filter.
C17_RotationLifetime ==
  /\ \A i \in admitted : \A k \in 1..Buckets :
       (filters[k].filter[i] > 0) <=> (rotSince[i] <= Buckets - k)
  /\ \A i \in Ids \ admitted : \A k \in 1..Buckets : filters[k].filter[i] = 0
  /\ \A i \in admitted :
       /\ rotSince[i] < Buckets => MultiCuckoo_contains(filters, i)
       /\ rotSince[i] >= Buckets => ~MultiCuckoo_contains(filters, i)
  /\ MultiCuckoo_len(filters) >= Cardinality({i \in admitted : rotSince[i] < Buckets})

\* C17 witness (the test cuckoo_simple_rotate): a and b admitted, a admitted
\* again after the first rotation; after the second rotation a is contained,
\* b is not, len is 1
C17_Witness ==
  \E a, b \in admitted :
    /\ a # b
    /\ rotSince[a] = Buckets - 1 /\ rotSince[b] = Buckets
    /\ MultiCuckoo_contains(filters, a)
    /\ ~MultiCuckoo_contains(filters, b)
    /\ MultiCuckoo_len(filters) = 1

(***************************************************************************)
(* Claims on the ingress framing (specification FrameSpec).                *)
(***************************************************************************)
\* a line without its terminator's \r
StripCr(l) == IF Len(l) > 0 /\ l[Len(l)] = CR THEN SubSeq(l, 1, Len(l) - 1) ELSE l

\* the newline-terminated lines of a byte stream, terminators removed
RECURSIVE LinesOf(_)
LinesOf(b) ==
  IF memchr(b) = 0 THEN <<>>
  ELSE <<StripCr(SubSeq(b, 1, memchr(b) - 1))>> \o LinesOf(SubSeq(b, memchr(b) + 1, Len(b)))

\* the bytes after the last newline of a byte stream
RECURSIVE ResidualOf(_)
ResidualOf(b) == IF memchr(b) = 0 THEN b ELSE ResidualOf(SubSeq(b, memchr(b) + 1, Len(b)))

\* a byte stream made of well-formed PDUs, each terminated by \n or \r\n
WellFormedInput(b) == \A i \in DOMAIN LinesOf(b) : WellFormedPdu(LinesOf(b)[i])

\* C18: for a byte stream of well-formed PDUs separated by \n or \r\n and any
\* split point (also between \r and \n), framing the prefix and then the
\* kept residual followed by the suffix yields the PDUs and the residual of
\* framing the whole stream at once; and so does client_handler for any
\* number of reads, however they cut the stream.
C18_SplitIndependent ==
  WellFormedInput(hInput) =>
    LET whole == process_buffer_newlines(hInput) IN
      /\ \A k \in 0..Len(hInput) :
           LET pre == process_buffer_newlines(SubSeq(hInput, 1, k))
               suf == process_buffer_newlines(pre.buf \o SubSeq(hInput, k + 1, Len(hInput)))
           IN /\ ~pre.panic /\ ~suf.panic
              /\ pre.ret \o suf.ret = whole.ret
              /\ suf.buf = whole.buf
      /\ hPc # "panicked"
      /\ (hPc = "read" /\ hSent = Len(hInput)) => (hPdus = whole.ret /\ hBuf = whole.buf)

\* C18 witness: a stream of two PDUs, the first ended by \r\n, and a residual
\* was read in several reads, one of which ended between the \r and the \n
C18_Witness ==
  /\ WellFormedInput(hInput)
  /\ hSplitCr
  /\ hPc = "read" /\ hSent = Len(hInput)
  /\ Len(hPdus) = 2
  /\ hBuf # <<>>

\* C19: process_buffer_newlines returns, in input order, one PDU per
\* newline-terminated line (none for an empty line) with the terminator
\* removed, and leaves in the buffer exactly the bytes after the last
\* newline; a buffer without a newline yields no PDU and is left unchanged.
C19_Framing ==
  LET r == process_buffer_newlines(hInput) IN
    /\ ~r.panic
    /\ r.ret = SelectSeq(LinesOf(hInput), LAMBDA l : l # <<>>)
    /\ r.buf = ResidualOf(hInput)
    /\ memchr(hInput) = 0 => (r.ret = <<>> /\ r.buf = hInput)
    /\ hPc # "panicked"

(***************************************************************************)
(* Claims on the fan-out (specification FanSpec).                          *)
(***************************************************************************)
\* C20: a provide of a PDU named n calls every target, one after the other
\* and whatever the earlier ones did with it, and acts on each by that
\* target's own configuration, ring and queues alone: a target whose filter
\* rejects n or whose ring is empty is left as it was, no try_send made; any
\* other target sees exactly one try_send, to the client of the endpoint at
\* slot hash(n) mod N of its endpoint list (slot 0 when N = 1), whatever the
\* prefix and suffix and the queues hold; the PDU, with the target's prefix
\* and suffix, is appended to that client's queue if there is room and
\* counted in the target's warning_log if not, and no other queue and no
\* other target changes.
C20_FanOut ==
  /\ [][\A k \in Callers :
       FanProvideTarget(k) =>
           LET t == fpPc[k]
               n == fpPdu[k].name
               c == fanConf[t]
               rg == fanRing[t]
               N == Len(rg)
               admits == c.filter = 0 \/ is_match(c.filter, n)
               slot == IF N = 1 THEN 0 ELSE statsrelay_compat_hash(n) % N
               e == rg[slot + 1]
           IN /\ fpPc'[k] = (IF t = NTargets THEN 0 ELSE t + 1)
              /\ \A u \in Targets \ {t} :
                   fanQ'[u] = fanQ[u] /\ fanWarn'[u] = fanWarn[u]
              /\ IF ~admits \/ N = 0
                 THEN /\ fanQ'[t] = fanQ[t]
                      /\ fanWarn'[t] = fanWarn[t]
                      /\ fanLast'[k][t].tries = 0
                 ELSE /\ fanLast'[k][t].tries = 1
                      /\ fanLast'[k][t].ep = e
                      /\ \A o \in Endpoints \ {e} : fanQ'[t][o] = fanQ[t][o]
                      /\ IF Len(fanQ[t][e]) < QueueCap
                         THEN /\ fanQ'[t][e] = Append(fanQ[t][e],
                                   [name |-> n, prefix |-> c.prefix, suffix |-> c.suffix])
                              /\ fanWarn'[t] = fanWarn[t]
                         ELSE /\ fanQ'[t][e] = fanQ[t][e]
                              /\ fanWarn'[t] = fanWarn[t] + 1]_vars
  /\ [](\A k \in Callers :
          IF fpPc[k] # 0
          THEN \A t \in Targets : fanLast[k][t].out # "none" <=> t < fpPc[k]
          ELSE \/ \A t \in Targets : fanLast[k][t].out # "none"
               \/ \A t \in Targets : fanLast[k][t] = NoOutcome)

\* C20 witness: a provide that has returned was dropped at the first target,
\* on the full queue of the endpoint at slot 1 of its two-slot ring, and
\* queued at the second target
C20_Witness ==
  \E k \in Callers :
    /\ fpPc[k] = 0
    /\ fanLast[k][1].out = "dropped"
    /\ Len(fanRing[1]) = 2
    /\ fanRing[1][1] # fanRing[1][2]
    /\ fanLast[k][1].ep = fanRing[1][2]
    /\ fanLast[k][2].out = "queued"

\* C25 as claimed: a tick at time now retires the oldest sub-filter exactly
\* when its valid_until <= now, also when the two are equal.
C25_RotatesAtValidUntil ==
  [][tick =>
       IF filters[1].valid_until <= now
       THEN filters' = Append(Tail(filters),
                              [filter |-> EmptyFilter,
                               valid_until |-> now + Window * (Buckets + 1)])
       ELSE filters' = filters]_vars

\* C25 amended: a tick at time now retires the oldest sub-filter exactly when
\* its valid_until < now: it removes that one sub-filter and appends an empty
\* one with valid_until = now + window * (B + 1); when valid_until >= now,
\* also when the two are equal, the filter is unchanged.
C25_RotatesAfterValidUntil ==
  [][tick =>
       IF filters[1].valid_until < now
       THEN filters' = Append(Tail(filters),
                              [filter |-> EmptyFilter,
                               valid_until |-> now + Window * (Buckets + 1)])
       ELSE filters' = filters]_vars

\* C25 witness: after an earlier rotation, a tick came at the very time the
\* oldest sub-filter is valid until, and retired nothing
C25_Witness ==
  /\ rotated
  /\ ticked
  /\ filters[1].valid_until = now
  /\ filters[Buckets].valid_until # now + Window * (Buckets + 1)

\* the identities a sub-filter holds
Held(f) == {i \in Ids : f.filter[i] > 0}

\* C27: the sub-filters are nested: what a sub-filter holds, the next older
\* one holds too, so an identity absent from the oldest is absent from all;
\* and the oldest sub-filter never holds more than size_limit + 1 distinct
\* identities.
C27_Nested ==
  /\ \A k \in 1..(Buckets - 1) : Held(filters[k + 1]) \subseteq Held(filters[k])
  /\ \A i \in Ids : ~MultiCuckoo_contains(filters, i) =>
                        \A k \in 1..Buckets : filters[k].filter[i] = 0
  /\ Cardinality(Held(filters[1])) <= SizeLimit + 1

\* C27 witness: after a rotation the oldest sub-filter holds size_limit + 1
\* identities and the newest holds some, but not all, of them
C27_Witness ==
  /\ rotated
  /\ Cardinality(Held(filters[1])) = SizeLimit + 1
  /\ Held(filters[Buckets]) # {}
  /\ Held(filters[Buckets]) # Held(filters[1])

\* C26: the framer completes on every byte buffer: an empty line yields no
\* PDU, the lines after it are still framed and emitted, and client_handler
\* has forwarded every non-empty line once it has read the whole stream.
C26_FramerCompletes ==
  /\ ~process_buffer_newlines(hInput).panic
  /\ Len(process_buffer_newlines(hInput).ret) =
       Len(SelectSeq(LinesOf(hInput), LAMBDA l : l # <<>>))
  /\ hPc # "panicked"
  /\ (hPc = "read" /\ hSent = Len(hInput)) =>
       hPdus = SelectSeq(LinesOf(hInput), LAMBDA l : l # <<>>)

(***************************************************************************)
(* Claims on the ingress servers (specifications SrvSpec, FairSrvSpec).    *)
(***************************************************************************)
\* what a datagram should yield: its non-empty lines and then its trailing
\* content, if any
UdpExpected(d) ==
  SelectSeq(LinesOf(d), LAMBDA l : l # <<>>)
    \o (IF ResidualOf(d) # <<>> THEN <<ResidualOf(d)>> ELSE <<>>)

\* C21: of every datagram received, every newline-terminated line and the
\* trailing content that is not newline-terminated are forwarded as PDUs, in
\* datagram order, and nothing of an earlier datagram with them.
C21_UdpForwardsAll ==
  sLast # <<>> => sFwd = UdpExpected(sLast)

\* every handler has ended
HandlersGone == \A h \in Conns : sConn[h] \in {"none", "closed", "panicked"}

\* shutdown is complete
ShutdownDone == RunReturned /\ sUdp = "exited" /\ HandlersGone

\* C22: once the tripwire fires the accept loop stops accepting, every
\* handler active then makes one courtesy write and closes, the gate is set
\* only after the accept loop has exited, the UDP thread exits after at most
\* one more receive, and run eventually returns, with every handler gone.
C22_Shutdown ==
  /\ [](sGate => (sRun = "join" \/ RunReturned))
  /\ [](sRecvAfterGate <= 1)
  /\ [](\A h \in Conns :
          (sAtTrip[h] /\ sConn[h] \in {"closed", "panicked"}) => sWrites[h] = 1)
  /\ (sTripped ~> ShutdownDone)

\* lines a counter that has seen n drops has logged: one for the drop that
\* finds it at 0, 1000, 2000, ...
LinesFor(n) == (n + WARN_EVERY - 1) \div WARN_EVERY

\* f[1] + ... + f[n]
RECURSIVE SumTo(_, _)
SumTo(f, n) == IF n = 0 THEN 0 ELSE SumTo(f, n - 1) + f[n]

\* C23 as stated: queue-full warnings are one log line per 1000 drops with the
\* drops counted separately for each (target, endpoint) pair, so the lines
\* naming an endpoint are decided by the drops on that endpoint alone.
C23_PerEndpoint ==
  \A e \in Endpoints : wlLines[e] = LinesFor(wlDrops[e])

\* C23 amended: queue-full warnings are one log line per 1000 drops with the
\* drops counted once for the whole target: a drop on any endpoint advances
\* the one count, a drop is logged exactly when the count before it is a
\* multiple of 1000, and the line names the endpoint of that drop.
C23_PerTarget ==
  /\ [](wlCount = SumTo(wlDrops, NEndpoints))
  /\ [](SumTo(wlLines, NEndpoints) = LinesFor(wlCount))
  /\ [][\A e \in Endpoints :
          WarnDrop(e) =>
            /\ wlCount' = wlCount + 1
            /\ \A o \in Endpoints :
                 wlLines'[o] = wlLines[o] +
                   (IF o = e /\ wlCount % WARN_EVERY = 0 THEN 1 ELSE 0)]_vars

\* the 1001st drop of the target is the first one on endpoint 2, and is logged
C23_Witness ==
  /\ wlCount = WARN_EVERY + 1
  /\ wlDrops[2] = 1
  /\ wlLines[2] = 1
  /\ wlLines[1] = 1

\* client_sender is inside form_connection
Connecting == wtPc \in {"connect", "backoff"}

\* C24: connection death in the write task.  A write_buf that returns Ok(0)
\* on a non-empty buffer, or Err, discards exactly the bytes of the remaining
\* buffer up to and including the next newline, drops the stream and adds one
\* to connections_aborted, which nothing else changes; bytes reach the wire
\* only while a stream is held, a stream is got only from form_connection, and
\* a task without a stream that has bytes to write does nothing but go into
\* form_connection; form_connection goes on between attempt and backoff until
\* it has a stream or the tripwire has fired, and a task without a stream
\* returns only once the tripwire has fired.
C24_ConnectionDeath ==
  /\ [][\A result \in {"Ok0", "Err"} :
          SenderWriteDead(result) =>
            /\ \E k \in 1..Len(wbuf) :
                 /\ wbuf[k] = NL
                 /\ \A j \in 1..(k - 1) : wbuf[j] # NL
                 /\ wbuf' = SubSeq(wbuf, k + 1, Len(wbuf))
            /\ ~lazy_connect'
            /\ connections_aborted' = connections_aborted + 1
            /\ wire' = wire]_vars
  /\ [][connections_aborted' # connections_aborted =>
          \E result \in {"Ok0", "Err"} : SenderWriteDead(result)]_vars
  /\ [][wire' # wire => lazy_connect]_vars
  /\ [][(~lazy_connect /\ lazy_connect') => wtPc = "connect"]_vars
  /\ [][(wtPc = "write" /\ wbuf # <<>> /\ ~lazy_connect) =>
          /\ wtPc' \in {"write", "connect"}
          /\ wbuf' = wbuf]_vars
  /\ [][(Connecting /\ ~Connecting') => (lazy_connect' \/ tripped)]_vars
  /\ [][(~lazy_connect /\ ~SenderReturned /\ SenderReturned') => tripped]_vars

\* after the first connection death, which trimmed some bytes, the task has
\* reconnected and written a later byte of the stream
C24_Witness ==
  /\ connections_aborted = 1
  /\ lazy_connect
  /\ \E i \in DOMAIN disp :
       /\ disp[i] = 1
       /\ \E j \in DOMAIN disp : j > i /\ disp[j] = 0

\* the lines of the PDUs i..j, one after the other
RECURSIVE Lines(_, _)
Lines(i, j) == IF j < i THEN <<>> ELSE Lines(i, j - 1) \o Line(j)

\* b is made of whole PDUs in arrival order, each followed by one newline
WholeLines(b) == \E i \in 1..(MaxPdus + 1), j \in 0..MaxPdus : b = Lines(i, j)

\* C28: every buffer client_task hands to client_sender is non-empty and is a
\* concatenation, in arrival order, of whole PDUs each followed by one
\* newline; so every non-empty remainder client_sender holds ends with a
\* newline, the trim after a connection death removes at least one byte and
\* leaves whole PDUs, and every write_buf call on a buffer shortens it, so
\* that a buffer sees no more calls than it has bytes.
C28_WholePdus ==
  /\ [](ctPc = "send" => buf # <<>>)
  /\ [](WholeLines(buf))
  /\ [](\A c \in DOMAIN chan : chan[c] # <<>> /\ WholeLines(chan[c]))
  /\ [](wbuf # <<>> => wbuf[Len(wbuf)] = NL)
  /\ [][\A result \in {"Ok0", "Err"} :
          SenderWriteDead(result) =>
            /\ Len(wbuf') < Len(wbuf)
            /\ WholeLines(wbuf')]_vars
  /\ [][wCalls' = wCalls + 1 => Len(wbuf') < Len(wbuf)]_vars
  /\ [](wCalls <= wLen)

\* a connection died after a write that ended inside a PDU: the rest of that
\* PDU was trimmed, and whole PDUs are left to write
C28_Witness ==
  /\ ~lazy_connect
  /\ wbuf # <<>>
  /\ WholeLines(wbuf)
  /\ \E i \in 1..(Len(disp) - 1) :
       /\ disp[i] = 0
       /\ disp[i + 1] > 0
       /\ Stream(taken)[i] # NL

====
